---------------------------- MODULE Spec2Model ----------------------------
(***************************************************************************)
(* State-machine model of the BirdNET overlay server                       *)
(* (src/birdnet-overlay/server.py).                                        *)
(*                                                                         *)
(* The module holds several specifications over one set of variables, one  *)
(* per subsystem:                                                          *)
(*   SpecStore   the detections table, the in-memory species aggregates,   *)
(*               the log revision and the summary cache (section 1);       *)
(*   SpecConfig  update_config and the capture-restart flag (section 2).    *)
(*   SpecLatest  the writers and readers of latest.json (section 3).        *)
(*   SpecPipe    dispatcher, gate worker and analysis workers on a small    *)
(*               segment directory with scaled-down limits (section 4).    *)
(*   SpecCap     the dispatcher alone, with the program's limits, on a      *)
(*               directory the capture process fills between ticks while   *)
(*               the gate worker is not scheduled (section 4).             *)
(* Each specification leaves the variables of the other subsystems at      *)
(* their initial values.                                                   *)
(***************************************************************************)
EXTENDS Integers, Sequences, FiniteSets, TLC

VARIABLES
  \* ---- persistent store (section 1)
  detections,       \* rows of table detections, in rowid order
  species_set,      \* global species_set
  species_counts,   \* global species_counts (dict species -> count)
  log_revision,     \* global log_revision
  wall_clock,       \* int(time.time() * 1000) as the next call will read it
  summary_cache,    \* rows of table summary_cache
  last_op,          \* name of the last store operation run
  last_ret,         \* what it returned (a set: {} is None / nothing)
  \* ---- configuration store (section 2)
  config,           \* the live config dict
  settings_file,    \* content of settings.json
  restart_capture,  \* threading.Event restart_capture
  cfg_op,           \* name of the last configuration operation run
  cfg_updates,      \* the patch it was given
  cfg_changed,      \* the set update_config returned
  cfg_signalled,    \* whether it ran restart_capture.set()
  \* ---- latest snapshot (section 3)
  fs,               \* content of latest.json and latest.tmp
  write_lock,       \* holder of write_lock ("" when free)
  lpc,              \* where each thread stands
  lpayload,         \* each thread's local payload
  lafter,           \* where each thread resumes after write_latest
  observed,         \* what GET /api/status last read from latest.json
  \* ---- segment pipeline (section 4)
  now,              \* time.time(), in whole seconds
  files,            \* tmp/segment_*.wav: segment number -> mtime
  next_seg,         \* number of the next segment the capture process writes
  gate_queue,       \* gate_queue
  analysis_queue,   \* analysis_queue
  gate_paths,       \* gate_paths
  analysis_paths,   \* analysis_paths
  disp,             \* the dispatcher loop: position and locals
  gate,             \* the gate worker: position and locals
  workers,          \* the analysis workers: position and locals
  enq_count,        \* per segment: times put on analysis_queue
  run_count,        \* per segment: times analyze_segment was entered
  stale_at_start,   \* over-age untracked files when the current tick began
  cap_event,        \* number in this tick's "Dropped N queued segments" event
  \* ---- silence gate (section 4)
  silence_threshold_db, \* config["silence_threshold_db"], in dBFS
  silence_min_seconds,  \* config["silence_min_seconds"], in hundredths
  silent_events,    \* per segment: "Skipped silent segment" events logged
  \* ---- capture supervisor (section 5)
  req,              \* POST /api/settings: "signal" between change and flag
  ffmpeg_installed, \* whether resolve_ffmpeg_path() finds ffmpeg
  sup,              \* capture_loop: position and locals
  procs,            \* the ffmpeg processes alive: pid -> process
  next_pid,         \* pid of the next child
  current_capture_pid, \* global current_capture_pid (0 is None)
  wd,               \* capture_watchdog: position and locals
  sup_status,       \* status and message capture_loop last published
  sup_event,        \* message capture_loop or the reaper last logged
  sig_log,          \* signals the reaper has delivered
  \* ---- segment analysis (section 6)
  birdnet_template, \* config["birdnet_template"]
  min_confidence,   \* config["min_confidence"], in hundredths
  an,               \* analyze_segment in each worker: position and locals
  out_dirs,         \* the run directories under tmp/
  out_files,        \* the CSV files in them: path -> rows
  next_uuid,        \* stands for the next uuid.uuid4()
  last_detection,   \* global last_detection
  analysis_last_error, \* global analysis_last_error ("" is None)
  published,        \* the payload analyze_segment last gave write_latest
  clip_index,       \* clips/index.json and the clip files: species -> entry
  clip_op,          \* arguments of the last update_best_clips call
  \* ---- the HTTP server (sections 7 and 8)
  stop_event,       \* threading.Event set by the signal handler
  events,           \* the events table of overlay.db
  request,          \* the request the handler is answering
  response,         \* what it sent back
  \* ---- store operations in progress (section 11)
  ops,              \* per thread: operation, position and locals
  \* ---- update_best_clips in progress (section 13)
  clip_calls,       \* per classifier worker: position and local index
  \* ---- the end of a capture child (section 14)
  ending            \* capture_loop around its child: position, child, signals

storeVars == <<detections, species_set, species_counts, log_revision,
               wall_clock, summary_cache, last_op, last_ret>>

configVars == <<config, settings_file, restart_capture, cfg_op, cfg_updates,
                cfg_changed, cfg_signalled>>

latestVars == <<fs, write_lock, lpc, lpayload, lafter, observed>>

pipeVars == <<now, files, next_seg, gate_queue, analysis_queue, gate_paths,
              analysis_paths, disp, gate, workers, enq_count, run_count,
              stale_at_start, cap_event>>

silenceVars == <<silence_threshold_db, silence_min_seconds, silent_events>>

supVars == <<req, ffmpeg_installed, sup, procs, next_pid,
             current_capture_pid, wd, sup_status, sup_event, sig_log>>

anVars == <<birdnet_template, min_confidence, an, out_dirs, out_files,
            next_uuid, last_detection, analysis_last_error, published,
            clip_index, clip_op>>

serverVars == <<stop_event, events, request, response, ops, clip_calls, ending>>

\* What the actions of one section leave alone.
outsideStore == <<configVars, latestVars, pipeVars, supVars, silenceVars,
                  anVars, serverVars>>
outsideConfig == <<storeVars, latestVars, pipeVars, supVars, silenceVars,
                  anVars, serverVars>>
outsideLatest == <<storeVars, configVars, pipeVars, supVars, silenceVars,
                  anVars, serverVars>>
outsidePipe == <<storeVars, configVars, latestVars, supVars, silenceVars,
                  anVars, serverVars>>

vars == <<detections, species_set, species_counts, log_revision,
          wall_clock, summary_cache, last_op, last_ret,
          config, settings_file, restart_capture, cfg_op, cfg_updates,
          cfg_changed, cfg_signalled,
          fs, write_lock, lpc, lpayload, lafter, observed,
          now, files, next_seg, gate_queue, analysis_queue, gate_paths,
          analysis_paths, disp, gate, workers, enq_count, run_count,
          stale_at_start, cap_event,
          silence_threshold_db, silence_min_seconds, silent_events,
          req, ffmpeg_installed, sup, procs, next_pid, current_capture_pid,
          wd, sup_status, sup_event, sig_log,
          birdnet_template, min_confidence, an, out_dirs, out_files,
          next_uuid, last_detection, analysis_last_error, published,
          clip_index, clip_op,
          serverVars>>

(***************************************************************************)
(* Section 1.  Persistent store                                            *)
(***************************************************************************)

\* ---- bounds of the store model
MaxRows == 2      \* rows the detections table may hold
MaxBatch == 2     \* entries of one append_log call
MaxClock == 2     \* wall-clock values 0..MaxClock
MaxRev == 4       \* operations that bump stop once log_revision reaches it

NoKey == "<no id key>"            \* the entry dict has no "id" key
IdKeys == {NoKey, "", "a"}       \* values of entry["id"] ("" is falsy)
Timestamps == {1, 2}
SpeciesNames == {"Robin", "Wren"}

\* The dicts handed to append_log.
Entries == [id : IdKeys, timestamp : Timestamps, species : SpeciesNames]

Batches == UNION {[1..n -> Entries] : n \in 1..MaxBatch}

\* hashlib.sha1(f"{timestamp}|{species}|{confidence}")[:12]: injective on the
\* base string, and never one of the opaque ids.
Sha1Prefix(base) == "sha1:" \o base

\* entry_id(entry): a truthy id is kept, otherwise the id is derived.
entry_id(entry) ==
  IF entry.id # NoKey /\ entry.id # ""
    THEN entry.id
    ELSE Sha1Prefix(ToString(entry.timestamp) \o "|" \o entry.species \o "|")

\* entry.get("species", "Unknown") or "Unknown"
SpeciesKey(entry) == IF entry.species = "" THEN "Unknown" ELSE entry.species

\* What append_log makes of one entry: the id key is filled in only when it
\* is absent (`if "id" not in entry`), then the row is built; raw is raw_json.
StoredEntry(entry) ==
  IF entry.id = NoKey THEN [entry EXCEPT !.id = entry_id(entry)] ELSE entry

RowOf(entry) ==
  LET e == StoredEntry(entry)
  IN  [id |-> e.id, timestamp |-> e.timestamp, species |-> e.species, raw |-> e]

\* INSERT OR REPLACE of one row: a row with the same primary key is deleted
\* and the new row gets a fresh (largest) rowid.
InsertOrReplace(table, row) ==
  SelectSeq(table, LAMBDA r : r.id # row.id) \o <<row>>

RECURSIVE InsertAll(_, _)
InsertAll(table, rows) ==
  IF rows = <<>> THEN table
  ELSE InsertAll(InsertOrReplace(table, Head(rows)), Tail(rows))

RowsOfBatch(entries) == [i \in 1..Len(entries) |-> RowOf(entries[i])]

\* ---- read_log
\* Position of the row that is greatest in (timestamp, rowid).
MaxPos(table) ==
  CHOOSE i \in 1..Len(table) :
    \A j \in 1..Len(table) :
      \/ table[j].timestamp < table[i].timestamp
      \/ (table[j].timestamp = table[i].timestamp /\ j <= i)

RemoveAt(s, i) == SubSeq(s, 1, i - 1) \o SubSeq(s, i + 1, Len(s))

\* ORDER BY timestamp DESC, rowid DESC
RECURSIVE OrderDesc(_)
OrderDesc(table) ==
  IF table = <<>> THEN <<>>
  ELSE LET i == MaxPos(table)
       IN  <<table[i]>> \o OrderDesc(RemoveAt(table, i))

Reverse(s) == [i \in 1..Len(s) |-> s[Len(s) + 1 - i]]

\* Mutant of OldestFirst: the rows stay as the query returned them.
NewestFirst(rows) == rows

\* for row in reversed(rows)
OldestFirst(rows) == Reverse(rows)

\* read_log(limit) with limit None written as -1.
read_log(table, limit) ==
  IF limit # -1 /\ limit <= 0 THEN <<>>
  ELSE LET ordered == OrderDesc(table)
           rows == IF limit = -1 \/ limit >= Len(ordered) THEN ordered
                   ELSE SubSeq(ordered, 1, limit)
           back == OldestFirst(rows)
       IN  [i \in 1..Len(back) |->
              [back[i].raw EXCEPT !.id = entry_id(back[i].raw)]]

\* ---- species aggregates
ScanSet(entries) == {SpeciesKey(entries[i]) : i \in 1..Len(entries)}

ScanCounts(entries) ==
  [s \in ScanSet(entries) |->
     Cardinality({i \in 1..Len(entries) : SpeciesKey(entries[i]) = s})]

\* rebuild_species_set / rebuild_species_counts: a full scan of read_log(None)
rebuild_species_set(table) == ScanSet(read_log(table, -1))

rebuild_species_counts(table) == ScanCounts(read_log(table, -1))

RECURSIVE update_species_set(_, _)
update_species_set(set, entries) ==
  IF entries = <<>> THEN set
  ELSE update_species_set(set \cup {SpeciesKey(Head(entries))}, Tail(entries))

CountUp(counts, s) ==
  IF s \in DOMAIN counts THEN [counts EXCEPT ![s] = @ + 1]
  ELSE counts @@ (s :> 1)

RECURSIVE update_species_counts(_, _)
update_species_counts(counts, entries) ==
  IF entries = <<>> THEN counts
  ELSE update_species_counts(CountUp(counts, SpeciesKey(Head(entries))),
                             Tail(entries))

\* ---- log revision
\* Mutant of bump_log_revision: the wall clock alone, without the
\* "previous + 1" floor.
bump_clock_only(rev, clock) == clock

\* bump_log_revision: candidate = wall clock; if candidate <= log_revision
\* then candidate = log_revision + 1.
bump_log_revision(rev, clock) == IF clock <= rev THEN rev + 1 ELSE clock

\* ---- summary cache
CacheKey == "log_summary"

\* invalidate_summary_cache: DELETE ... WHERE cache_key = 'log_summary'
invalidate_summary_cache(cache) == {r \in cache : r.cache_key # CacheKey}

\* Mutant of get_cached_summary: the stored revision is not compared.
get_cached_any_revision(cache, rev) ==
  {r.payload : r \in {c \in cache : c.cache_key = CacheKey}}

\* get_cached_summary: the payload of the row with the current revision.
get_cached_summary(cache, rev) ==
  {r.payload : r \in {c \in cache : c.cache_key = CacheKey /\ c.log_revision = rev}}

\* set_cached_summary: INSERT OR REPLACE by cache_key, stamped get_log_revision()
set_cached_summary(cache, rev, payload) ==
  {r \in cache : r.cache_key # CacheKey}
    \cup {[cache_key |-> CacheKey, log_revision |-> rev, payload |-> payload]}

\* The payload summarize_log computes from read_log(None).
SummaryPayload(table, rev) ==
  LET entries == read_log(table, -1)
  IN  [counts |-> ScanCounts(entries),
       species_count |-> Cardinality(ScanSet(entries)),
       total_detections |-> Len(entries),
       log_revision |-> rev]

\* ---- initial state (ensure_latest_file after a start of the process)
\* Detections and summary_cache rows persist in overlay.db across restarts.
PersistedTables ==
  {<<>>,
   <<RowOf([id |-> "a", timestamp |-> 1, species |-> "Robin"])>>}

PersistedCaches ==
  {{}} \cup
  {{[cache_key |-> CacheKey, log_revision |-> r,
     payload |-> SummaryPayload(t, r)]} :
       r \in 0..MaxClock, t \in PersistedTables}

StoreIdle ==
  /\ detections = <<>>
  /\ species_set = {}
  /\ species_counts = <<>>
  /\ wall_clock = 0
  /\ log_revision = 0
  /\ summary_cache = {}
  /\ last_op = "start"
  /\ last_ret = {}

StoreInit ==
  /\ detections \in PersistedTables
  /\ species_set = rebuild_species_set(detections)
  /\ species_counts = rebuild_species_counts(detections)
  /\ wall_clock \in 0..MaxClock
  /\ log_revision = wall_clock
  /\ summary_cache \in PersistedCaches
  /\ last_op = "start"
  /\ last_ret = {}

\* ---- operations
\* append_log(entries) with no entry: returns at once.
AppendNothing ==
  /\ last_op' = "append_log_empty"
  /\ last_ret' = {}
  /\ UNCHANGED <<detections, species_set, species_counts, log_revision,
                 wall_clock, summary_cache>>
  /\ UNCHANGED outsideStore

\* append_log(entries)
AppendLog(entries) ==
  /\ log_revision < MaxRev
  /\ Len(InsertAll(detections, RowsOfBatch(entries))) <= MaxRows
  /\ detections' = InsertAll(detections, RowsOfBatch(entries))
  /\ species_set' = update_species_set(species_set, entries)
  /\ species_counts' = update_species_counts(species_counts, entries)
  /\ log_revision' = bump_log_revision(log_revision, wall_clock)
  /\ summary_cache' = invalidate_summary_cache(summary_cache)
  /\ last_op' = "append_log"
  /\ last_ret' = {}
  /\ UNCHANGED wall_clock
  /\ UNCHANGED outsideStore

\* Mutant of rowcount: the DELETE always reports one row.
rowcount_one(table, entry_key) == 1

\* cursor.rowcount after DELETE FROM detections WHERE id = ?
rowcount(table, entry_key) ==
  Cardinality({i \in 1..Len(table) : table[i].id = entry_key})

\* delete_log_entry(entry_key)
DeleteLogEntry(entry_key) ==
  LET removed == entry_key # "" /\ rowcount(detections, entry_key) > 0
      table == SelectSeq(detections, LAMBDA r : r.id # entry_key)
  IN  /\ log_revision < MaxRev
      /\ last_op' = "delete_log_entry"
      /\ last_ret' = {removed}
      /\ IF removed
           THEN /\ detections' = table
                /\ species_set' = rebuild_species_set(table)
                /\ species_counts' = rebuild_species_counts(table)
                /\ log_revision' = bump_log_revision(log_revision, wall_clock)
                /\ summary_cache' = invalidate_summary_cache(summary_cache)
           ELSE UNCHANGED <<detections, species_set, species_counts,
                            log_revision, summary_cache>>
      /\ UNCHANGED wall_clock
      /\ UNCHANGED outsideStore

\* get_cached_summary() called on its own
GetCachedSummary ==
  /\ last_op' = "get_cached_summary"
  /\ last_ret' = get_cached_summary(summary_cache, log_revision)
  /\ UNCHANGED <<detections, species_set, species_counts, log_revision,
                 wall_clock, summary_cache>>
  /\ UNCHANGED outsideStore

\* summarize_log()
SummarizeLog ==
  LET cached == get_cached_summary(summary_cache, log_revision)
      payload == SummaryPayload(detections, log_revision)
  IN  /\ IF cached # {}
           THEN /\ last_op' = "summarize_log_hit"
                /\ last_ret' = cached
                /\ UNCHANGED <<species_set, species_counts, summary_cache>>
           ELSE /\ last_op' = "summarize_log_miss"
                /\ last_ret' = {payload}
                /\ summary_cache' =
                     set_cached_summary(summary_cache, log_revision, payload)
                /\ IF detections = <<>>
                     THEN UNCHANGED <<species_set, species_counts>>
                     ELSE /\ species_counts' = payload.counts
                          /\ species_set' = DOMAIN payload.counts
      /\ UNCHANGED <<detections, log_revision, wall_clock>>
      /\ UNCHANGED outsideStore

\* bump_log_revision() called by the icon handlers
BumpLogRevision ==
  /\ log_revision < MaxRev
  /\ log_revision' = bump_log_revision(log_revision, wall_clock)
  /\ last_op' = "bump_log_revision"
  /\ last_ret' = {}
  /\ UNCHANGED <<detections, species_set, species_counts, wall_clock,
                 summary_cache>>
  /\ UNCHANGED outsideStore

\* save_clip_index() ends with invalidate_summary_cache()
SaveClipIndex ==
  /\ summary_cache' = invalidate_summary_cache(summary_cache)
  /\ last_op' = "save_clip_index"
  /\ last_ret' = {}
  /\ UNCHANGED <<detections, species_set, species_counts, log_revision,
                 wall_clock>>
  /\ UNCHANGED outsideStore

\* The wall clock moves: forwards, not at all between two calls, or backwards.
ClockMoves ==
  /\ \E t \in 0..MaxClock : t # wall_clock /\ wall_clock' = t
  /\ UNCHANGED <<detections, species_set, species_counts, log_revision,
                 summary_cache, last_op, last_ret>>
  /\ UNCHANGED outsideStore


StoreNext ==
  \/ AppendNothing
  \/ \E entries \in Batches : AppendLog(entries)
  \/ \E k \in {entry_id(e) : e \in Entries} \cup {""} : DeleteLogEntry(k)
  \/ GetCachedSummary
  \/ SummarizeLog
  \/ BumpLogRevision
  \/ SaveClipIndex
  \/ ClockMoves


(***************************************************************************)
(* Claims about the persistent store                                       *)
(***************************************************************************)

(***************************************************************************)
(* Section 2.  Configuration store                                         *)
(***************************************************************************)

\* ---- bounds of the configuration model
MaxPatchKeys == 2   \* keys of one patch

\* JSON / Python values.  Numbers are written in hundredths (3 s is 300), so
\* that 0.1 and 0.25 are integers.
Num(n) == [kind |-> "num", n |-> n, s |-> ""]
Str(t) == [kind |-> "str", n |-> 0, s |-> t]
Bool(b) == [kind |-> "bool", n |-> IF b THEN 100 ELSE 0, s |-> ""]
NaN == [kind |-> "nan", n |-> 0, s |-> ""]
Null == [kind |-> "null", n |-> 0, s |-> ""]

\* Python's a != b on these values: NaN differs from everything, itself
\* included; True == 1 and False == 0.
PyNotEqual(a, b) ==
  CASE a.kind = "nan" \/ b.kind = "nan" -> TRUE
    [] a.kind \in {"num", "bool"} /\ b.kind \in {"num", "bool"} -> a.n # b.n
    [] OTHER -> a # b

\* float(value): {} stands for TypeError / ValueError.
PyFloat(v) ==
  CASE v.kind = "num" -> {v}
    [] v.kind = "bool" -> {Num(v.n)}
    [] v.kind = "nan" -> {NaN}
    [] v.kind = "str" /\ v.s = "nan" -> {NaN}
    [] v.kind = "str" /\ v.s = "3" -> {Num(300)}
    [] OTHER -> {}

\* int(value): truncation toward zero; NaN and non-integer text raise.
PyInt(v) ==
  CASE v.kind = "num" -> {Num(IF v.n >= 0 THEN (v.n \div 100) * 100
                                         ELSE -(((-v.n) \div 100) * 100))}
    [] v.kind = "bool" -> {Num(v.n)}
    [] v.kind = "str" /\ v.s = "3" -> {Num(300)}
    [] OTHER -> {}

\* str(value) of the values the model submits for text keys.
PyStr(v) ==
  CASE v.kind = "str" -> {v}
    [] v.kind = "null" -> {Str("None")}
    [] v.kind = "nan" -> {Str("nan")}
    [] v.kind = "bool" -> {Str(IF v.n = 0 THEN "False" ELSE "True")}
    [] OTHER -> {Str(ToString(v.n \div 100))}

\* max(lo, x) as Python computes it: the first argument is kept unless the
\* second compares greater; NaN never does.
PyMax(lo, x) == IF x.kind = "num" /\ x.n > lo THEN x ELSE Num(lo)

\* update_config.normalize_input_mode
normalize_input_mode(v) ==
  IF v.kind = "str" /\ v.s \in {"avfoundation", "device", "local"}
    THEN Str("avfoundation")
    ELSE Str("stream")

restart_fields == {"input_mode", "input_device", "rtmp_url", "segment_seconds"}

\* The keys of the allow-list the model follows, one or more per cast.
allowed == {"input_mode", "rtmp_url", "segment_seconds", "latitude", "week"}

ConfigKeys == allowed \cup {"settings_auth_enabled"}

\* update_config.cast_value
cast_value(key, v) ==
  CASE key \in {"input_mode", "rtmp_url"} -> PyStr(v)
    [] key = "segment_seconds" -> {PyMax(10, x) : x \in PyFloat(v)}
    [] key = "latitude" -> PyFloat(v)
    [] key = "week" -> PyInt(v)
    [] OTHER -> {v}

\* The value update_config would store for (key, value), if any.
Normalized(key, v) ==
  IF key \notin allowed THEN {}
  ELSE cast_value(key, IF key = "input_mode" THEN normalize_input_mode(v) ELSE v)

\* The keys the loop of update_config changes.
ChangedKeys(cfg, updates) ==
  {k \in DOMAIN updates :
     \E x \in Normalized(k, updates[k]) : PyNotEqual(cfg[k], x)}

ConfigAfter(cfg, updates) ==
  [k \in DOMAIN cfg |->
     IF k \in ChangedKeys(cfg, updates)
       THEN CHOOSE x \in Normalized(k, updates[k]) : TRUE
       ELSE cfg[k]]

\* ---- the patches submitted
RawValues(key) ==
  CASE key = "input_mode" -> {Str("rtmp"), Str("device")}
    [] key = "rtmp_url" -> {Str("rtsp://example/stream")}
    [] key = "segment_seconds" -> {Num(0), Num(300), Str("abc"), NaN}
    [] key = "latitude" -> {Num(4500), NaN, Null}
    [] key = "week" -> {Num(1250)}
    [] OTHER -> {Bool(TRUE)}

AllRawValues == UNION {RawValues(k) : k \in ConfigKeys}

Patches ==
  UNION {{u \in [ks -> AllRawValues] : \A k \in ks : u[k] \in RawValues(k)} :
           ks \in {K \in SUBSET ConfigKeys : Cardinality(K) <= MaxPatchKeys}}

\* DEFAULT_CONFIG, as load_config leaves it when settings.json holds nothing
\* else; a settings.json written by hand may hold an input_mode that was
\* never normalized.
DEFAULT_CONFIG ==
  [input_mode |-> Str("stream"), rtmp_url |-> Str(""),
   segment_seconds |-> Num(300), latitude |-> Num(-100), week |-> Num(-100),
   settings_auth_enabled |-> Bool(FALSE)]

ConfigIdle ==
  /\ config = DEFAULT_CONFIG
  /\ settings_file = DEFAULT_CONFIG
  /\ restart_capture = FALSE
  /\ cfg_op = "start"
  /\ cfg_updates = <<>>
  /\ cfg_changed = {}
  /\ cfg_signalled = FALSE

ConfigInit ==
  /\ config \in {DEFAULT_CONFIG,
                 [DEFAULT_CONFIG EXCEPT !.input_mode = Str("rtmp")]}
  /\ settings_file = config
  /\ restart_capture = FALSE
  /\ cfg_op = "start"
  /\ cfg_updates = <<>>
  /\ cfg_changed = {}
  /\ cfg_signalled = FALSE

\* update_config(config, updates)
UpdateConfig(updates) ==
  LET changed == ChangedKeys(config, updates)
      after == ConfigAfter(config, updates)
      signal == restart_fields \cap changed # {}
  IN  /\ config' = after
      /\ settings_file' = IF changed # {} THEN after ELSE settings_file
      /\ restart_capture' = (restart_capture \/ signal)
      /\ cfg_op' = IF cfg_op = "update_config" THEN "update_config again"
                   ELSE "update_config"
      /\ cfg_updates' = updates
      /\ cfg_changed' = changed
      /\ cfg_signalled' = signal
      /\ UNCHANGED outsideConfig

\* POST /api/restart
PostRestart ==
  /\ restart_capture' = TRUE
  /\ cfg_op' = "restart"
  /\ cfg_updates' = <<>>
  /\ cfg_changed' = {}
  /\ cfg_signalled' = TRUE
  /\ UNCHANGED <<config, settings_file>>
  /\ UNCHANGED outsideConfig

ConfigNext ==
  \/ \E updates \in Patches : UpdateConfig(updates)
  \/ PostRestart

(***************************************************************************)
(* Section 3.  Latest snapshot (latest.json)                               *)
(***************************************************************************)

LATEST_PATH == "latest.json"

\* Mutant of with_suffix_tmp: the payload is written straight into the file.
with_suffix_none(path) == path

\* LATEST_PATH.with_suffix(".tmp")
with_suffix_tmp(path) == "latest.tmp"

Paths == {LATEST_PATH, "latest.tmp"}

\* File contents: no file, a file whose text is not yet all written (not
\* valid JSON), or a JSON object with its keys and its status.
Absent == [kind |-> "absent", keys |-> {}, status |-> ""]
Truncated == [kind |-> "partial", keys |-> {}, status |-> ""]
Object(keys, status) == [kind |-> "object", keys |-> keys, status |-> status]

\* The keys build_payload returns (those the model follows).
PayloadKeys == {"timestamp", "species", "status", "status_message",
                "top_predictions", "last_detection", "last_heard",
                "log_revision", "species_count"}

build_payload(status) == Object(PayloadKeys, status)

\* json.loads(LATEST_PATH.read_text()) guarded by exists() and the except
\* clause: {} when the file is absent or does not parse.
ReadLatest(disk) ==
  IF disk[LATEST_PATH].kind = "object" THEN disk[LATEST_PATH]
  ELSE Object({}, "")

\* refresh_last_detection: the payload read, with four keys set.
RefreshedPayload(disk) ==
  LET payload == ReadLatest(disk)
  IN  Object(payload.keys \cup {"last_detection", "last_heard",
                                "log_revision", "species_count"},
             payload.status)

\* write_latest: payload["timestamp"] = payload.get("timestamp") or now_iso()
Stamped(payload) == [payload EXCEPT !.keys = @ \cup {"timestamp"}]

\* tmp_path.replace(LATEST_PATH)
replace(disk, src, dst) ==
  IF src = dst THEN disk
  ELSE [disk EXCEPT ![dst] = disk[src], ![src] = Absent]

Threads == {"main", "capture", "worker", "http"}

\* The statuses each writer publishes.
StatusesOf(t) ==
  CASE t = "capture" -> {"listening", "error"}
    [] t = "worker" -> {"ok", "idle"}
    [] OTHER -> {"idle"}

NoPayload == Object({}, "")

\* A process starts: main() runs ensure_latest_file before any thread.
Started(disk) ==
  /\ fs = disk
  /\ write_lock = ""
  /\ lpc = [t \in Threads |-> IF t = "main" THEN "ensure" ELSE "idle"]
  /\ lpayload = [t \in Threads |-> NoPayload]
  /\ lafter = [t \in Threads |-> "idle"]
  /\ observed = {}

LatestIdle == Started([f \in Paths |-> Absent])

LatestInit == Started([f \in Paths |-> Absent])

ThreadsRunning == lpc["main"] = "done"

\* ensure_latest_file: write the idle payload if latest.json is missing,
\* then refresh_last_detection.
EnsureLatestFile ==
  /\ lpc["main"] = "ensure"
  /\ IF fs[LATEST_PATH].kind = "absent"
       THEN /\ lpayload' = [lpayload EXCEPT !["main"] = build_payload("idle")]
            /\ lpc' = [lpc EXCEPT !["main"] = "wl_lock"]
            /\ lafter' = [lafter EXCEPT !["main"] = "rf_read"]
       ELSE /\ lpc' = [lpc EXCEPT !["main"] = "rf_read"]
            /\ UNCHANGED <<lpayload, lafter>>
  /\ UNCHANGED <<fs, write_lock, observed>>
  /\ UNCHANGED outsideLatest

\* capture_loop and analyze_segment: build_payload(...), write_latest(payload)
PublishStatus(t, status) ==
  /\ ThreadsRunning
  /\ t \in {"capture", "worker"}
  /\ lpc[t] = "idle"
  /\ lpayload' = [lpayload EXCEPT ![t] = build_payload(status)]
  /\ lpc' = [lpc EXCEPT ![t] = "wl_lock"]
  /\ lafter' = [lafter EXCEPT ![t] = "idle"]
  /\ UNCHANGED <<fs, write_lock, observed>>
  /\ UNCHANGED outsideLatest

\* A POST handler (icon upload, icon delete, log delete) calls
\* refresh_last_detection.
HandlerRefresh ==
  /\ ThreadsRunning
  /\ lpc["http"] = "idle"
  /\ lpc' = [lpc EXCEPT !["http"] = "rf_read"]
  /\ UNCHANGED <<fs, write_lock, lpayload, lafter, observed>>
  /\ UNCHANGED outsideLatest

\* refresh_last_detection up to its call of write_latest
RefreshLastDetection(t) ==
  /\ lpc[t] = "rf_read"
  /\ lpayload' = [lpayload EXCEPT ![t] = RefreshedPayload(fs)]
  /\ lpc' = [lpc EXCEPT ![t] = "wl_lock"]
  /\ lafter' = [lafter EXCEPT ![t] = IF t = "main" THEN "done" ELSE "idle"]
  /\ UNCHANGED <<fs, write_lock, observed>>
  /\ UNCHANGED outsideLatest

\* write_latest: stamp the payload and take write_lock
WriteLatestLock(t) ==
  /\ lpc[t] = "wl_lock"
  /\ write_lock = ""
  /\ write_lock' = t
  /\ lpayload' = [lpayload EXCEPT ![t] = Stamped(lpayload[t])]
  /\ lpc' = [lpc EXCEPT ![t] = "wl_open"]
  /\ UNCHANGED <<fs, lafter, observed>>
  /\ UNCHANGED outsideLatest

\* tmp_path.write_text: the file is opened for writing and truncated ...
WriteLatestOpen(t) ==
  /\ lpc[t] = "wl_open"
  /\ fs' = [fs EXCEPT ![with_suffix_tmp(LATEST_PATH)] = Truncated]
  /\ lpc' = [lpc EXCEPT ![t] = "wl_write"]
  /\ UNCHANGED <<write_lock, lpayload, lafter, observed>>
  /\ UNCHANGED outsideLatest

\* ... and the encoded payload is written
WriteLatestText(t) ==
  /\ lpc[t] = "wl_write"
  /\ fs' = [fs EXCEPT ![with_suffix_tmp(LATEST_PATH)] = lpayload[t]]
  /\ lpc' = [lpc EXCEPT ![t] = "wl_replace"]
  /\ UNCHANGED <<write_lock, lpayload, lafter, observed>>
  /\ UNCHANGED outsideLatest

\* tmp_path.replace(LATEST_PATH), release of write_lock, return
WriteLatestReplace(t) ==
  /\ lpc[t] = "wl_replace"
  /\ fs' = replace(fs, with_suffix_tmp(LATEST_PATH), LATEST_PATH)
  /\ write_lock' = ""
  /\ lpc' = [lpc EXCEPT ![t] = lafter[t]]
  /\ UNCHANGED <<lpayload, lafter, observed>>
  /\ UNCHANGED outsideLatest

\* GET /api/status, or the overlay fetching data/latest.json: a reader opens
\* latest.json and reads what is in it.
ReadLatestFile ==
  /\ ThreadsRunning
  /\ fs[LATEST_PATH].kind # "absent"
  /\ observed' = {fs[LATEST_PATH]}
  /\ UNCHANGED <<fs, write_lock, lpc, lpayload, lafter>>
  /\ UNCHANGED outsideLatest

\* The process is replaced (POST /api/restart/server runs os.execv) or
\* killed and started again: threads and locks are gone, the files stay.
RestartServerProcess ==
  /\ ThreadsRunning
  /\ write_lock' = ""
  /\ lpc' = [t \in Threads |-> IF t = "main" THEN "ensure" ELSE "idle"]
  /\ lpayload' = [t \in Threads |-> NoPayload]
  /\ lafter' = [t \in Threads |-> "idle"]
  /\ UNCHANGED <<fs, observed>>
  /\ UNCHANGED outsideLatest

LatestNext ==
  \/ EnsureLatestFile
  \/ \E t \in {"capture", "worker"} : \E st \in StatusesOf(t) :
       PublishStatus(t, st)
  \/ HandlerRefresh
  \/ \E t \in {"main", "http"} : RefreshLastDetection(t)
  \/ \E t \in Threads : WriteLatestLock(t)
  \/ \E t \in Threads : WriteLatestOpen(t)
  \/ \E t \in Threads : WriteLatestText(t)
  \/ \E t \in Threads : WriteLatestReplace(t)
  \/ ReadLatestFile
  \/ RestartServerProcess

(***************************************************************************)
(* Section 4.  Segment pipeline (process_loop)                             *)
(***************************************************************************)

\* ---- the program's limits
MAX_QUEUE_SEGMENTS == 60
MAX_ANALYSIS_BACKLOG == 24
MAX_SEGMENT_AGE_SECONDS == 30
ANALYSIS_WORKERS == 3

\* ---- bounds of the interleaving model: a directory of a few segments with
\* the limits scaled down to it, so that every limit is reached.
MaxSegs == 2          \* segments the capture process writes
MaxTime == 2          \* seconds the clock runs
SmallQueueCap == 1    \* stands for MAX_QUEUE_SEGMENTS
SmallBacklog == 2     \* stands for MAX_ANALYSIS_BACKLOG
SmallAge == 1         \* stands for MAX_SEGMENT_AGE_SECONDS
SmallWorkers == 2     \* stands for ANALYSIS_WORKERS
MaxCount == 2         \* the per-segment counters stop counting here

NoSeg == 0

\* is_file_ready tests age > 0.4; ages are whole seconds here.
ReadyAfter == 0

Exists(p) == p \in DOMAIN files

Tracked(p) == p \in gate_paths \/ p \in analysis_paths

\* path.unlink(missing_ok=True)
Unlink(dir, p) == [q \in DOMAIN dir \ {p} |-> dir[q]]

is_file_ready(p) == Exists(p) /\ now - files[p] > ReadyAfter

\* The paths of a set in the order glob yields them (by name).
RECURSIVE GlobOrder(_)
GlobOrder(S) ==
  IF S = {} THEN <<>>
  ELSE LET p == CHOOSE x \in S : \A y \in S : x <= y
       IN  <<p>> \o GlobOrder(S \ {p})

\* files_with_time.sort(key=lambda item: item[0]): stable, by mtime.
RECURSIVE SortByMtime(_)
SortByMtime(pairs) ==
  IF pairs = <<>> THEN <<>>
  ELSE LET i == CHOOSE k \in 1..Len(pairs) :
                  /\ \A j \in 1..Len(pairs) : pairs[k][1] <= pairs[j][1]
                  /\ \A j \in 1..(k - 1) : pairs[j][1] > pairs[k][1]
       IN  <<pairs[i]>> \o
           SortByMtime(SubSeq(pairs, 1, i - 1) \o
                       SubSeq(pairs, i + 1, Len(pairs)))

PathsOf(pairs) == [k \in 1..Len(pairs) |-> pairs[k][2]]

CountUpTo(counts, p) ==
  [counts EXCEPT ![p] = IF @ < MaxCount THEN @ + 1 ELSE @]

\* The same for a counter that has no entry for p yet.
CountFrom(counts, p) ==
  [q \in DOMAIN counts \cup {p} |->
     IF q # p THEN counts[q]
     ELSE IF p \notin DOMAIN counts THEN 1
     ELSE IF counts[p] < MaxCount THEN counts[p] + 1 ELSE counts[p]]

DispIdle == [pc |-> "scan", now |-> 0, todo |-> <<>>, fwt |-> <<>>,
             files |-> <<>>, i |-> 0, drop_count |-> 0, dropped |-> 0,
             cur |-> NoSeg, unlinked |-> <<>>]

\* `while not stop_event.is_set():` at the top of a thread's loop: the
\* thread `t` that comes back to the top goes round again or leaves.
LoopTop(t) == IF stop_event THEN [t EXCEPT !.pc = "exited"] ELSE t

NoRequest == [method |-> ""]

\* The threads that run store operations step by step: one classifier
\* worker and two request handlers.
OpThreads == {"worker", "http1", "http2"}

NoSummary ==
  [counts |-> <<>>, species_count |-> 0, total_detections |-> 0,
   log_revision |-> -1]

\* A thread that runs no store operation.
OpIdle ==
  [op |-> "", pc |-> "idle", entries |-> <<>>,
   scan |-> <<>>, rev |-> -1, payload |-> NoSummary, ret |-> "",
   done |-> <<>>, round |-> 0]

NoOps == [t \in OpThreads |-> OpIdle]

\* The classifier workers that call update_best_clips.
ClipWorkers == {1, 2}

\* A worker outside update_best_clips.
ClipCallIdle ==
  [pc |-> "idle", index |-> <<>>, segment |-> 0, predictions |-> <<>>,
   updated |-> FALSE, archived |-> {}, round |-> 0]

NoClipCalls == [w \in ClipWorkers |-> ClipCallIdle]

\* capture_loop with no child.
NoEnding == [pc |-> "none", why |-> "", child |-> "none", log |-> <<>>, round |-> 0]

ServerIdle ==
  /\ stop_event = FALSE
  /\ events = <<>>
  /\ request = NoRequest
  /\ response = NoRequest
  /\ ops = NoOps
  /\ clip_calls = NoClipCalls
  /\ ending = NoEnding

GateIdle == [pc |-> "get", path |-> NoSeg, backlog |-> 0]

WorkerIdle == [pc |-> "get", path |-> NoSeg]

\* process_loop has started its threads; the directory holds the given files
\* and the queues the given paths.
PipeStarted(dir, gq, aq, nworkers) ==
  /\ now = 0
  /\ files = dir
  /\ next_seg = Cardinality(DOMAIN dir) + 1
  /\ gate_queue = gq
  /\ analysis_queue = aq
  /\ gate_paths = {gq[k] : k \in 1..Len(gq)}
  /\ analysis_paths = {aq[k] : k \in 1..Len(aq)}
  /\ disp = DispIdle
  /\ gate = GateIdle
  /\ workers = [w \in 1..nworkers |-> WorkerIdle]
  /\ enq_count = [p \in DOMAIN dir |->
                    IF \E k \in 1..Len(aq) : aq[k] = p THEN 1 ELSE 0]
  /\ run_count = [p \in DOMAIN dir |-> 0]
  /\ stale_at_start = {}
  /\ cap_event = 0

PipeIdle == PipeStarted(<<>>, <<>>, <<>>, 1)

\* First start: ffmpeg has not written a segment yet.
PipeInit == PipeStarted(<<>>, <<>>, <<>>, SmallWorkers)

\* ---- the capture process and the clock
\* ffmpeg closes segment number next_seg.
NewSegment ==
  /\ next_seg <= MaxSegs
  /\ files' = [p \in DOMAIN files \cup {next_seg} |->
                 IF p = next_seg THEN now ELSE files[p]]
  /\ enq_count' = [p \in DOMAIN enq_count \cup {next_seg} |->
                     IF p = next_seg THEN 0 ELSE enq_count[p]]
  /\ run_count' = [p \in DOMAIN run_count \cup {next_seg} |->
                     IF p = next_seg THEN 0 ELSE run_count[p]]
  /\ next_seg' = next_seg + 1
  /\ UNCHANGED <<now, gate_queue, analysis_queue, gate_paths, analysis_paths,
                 disp, gate, workers, stale_at_start, cap_event>>
  /\ UNCHANGED outsidePipe

Tick ==
  /\ now < MaxTime
  /\ now' = now + 1
  /\ UNCHANGED <<files, next_seg, gate_queue, analysis_queue, gate_paths,
                 analysis_paths, disp, gate, workers, enq_count, run_count,
                 stale_at_start, cap_event>>
  /\ UNCHANGED outsidePipe

\* ---- the dispatcher loop
\* now = time.time(); TMP_DIR.glob("segment_*.wav")
DispScan(max_age) ==
  /\ disp.pc = "scan"
  /\ disp' = [DispIdle EXCEPT !.pc = "age", !.now = now,
                              !.todo = GlobOrder(DOMAIN files)]
  /\ stale_at_start' = {p \in DOMAIN files :
                          now - files[p] > max_age /\ ~Tracked(p)}
  /\ cap_event' = 0
  /\ UNCHANGED <<now, files, next_seg, gate_queue, analysis_queue,
                 gate_paths, analysis_paths, gate, workers, enq_count,
                 run_count>>
  /\ UNCHANGED outsidePipe

\* One path of the glob: stat it; over-age and untracked means it is to be
\* deleted, over-age and tracked is skipped, anything else is kept for the
\* later steps.
DispAge(max_age) ==
  /\ disp.pc = "age"
  /\ disp.todo # <<>>
  /\ LET p == Head(disp.todo)
         rest == [disp EXCEPT !.todo = Tail(disp.todo)]
     IN  disp' =
           IF ~Exists(p) THEN rest
           ELSE IF disp.now - files[p] > max_age
             THEN IF Tracked(p) THEN rest
                  ELSE [rest EXCEPT !.pc = "age_unlink", !.cur = p]
             ELSE [rest EXCEPT !.fwt = Append(disp.fwt, <<files[p], p>>)]
  /\ UNCHANGED <<now, files, next_seg, gate_queue, analysis_queue,
                 gate_paths, analysis_paths, gate, workers, enq_count,
                 run_count, stale_at_start, cap_event>>
  /\ UNCHANGED outsidePipe

\* path.unlink(missing_ok=True) of the over-age path
DispAgeUnlink ==
  /\ disp.pc = "age_unlink"
  /\ files' = Unlink(files, disp.cur)
  /\ disp' = [disp EXCEPT !.pc = "age", !.cur = NoSeg]
  /\ UNCHANGED <<now, next_seg, gate_queue, analysis_queue, gate_paths,
                 analysis_paths, gate, workers, enq_count, run_count,
                 stale_at_start, cap_event>>
  /\ UNCHANGED outsidePipe

\* The glob is exhausted: sort by mtime and compare the count with the cap.
DispSort(cap) ==
  /\ disp.pc = "age"
  /\ disp.todo = <<>>
  /\ LET sorted == PathsOf(SortByMtime(disp.fwt))
     IN  disp' = IF Len(sorted) > cap
                   THEN [disp EXCEPT !.pc = "cap", !.files = sorted, !.i = 1,
                                     !.drop_count = Len(sorted) - cap,
                                     !.dropped = 0]
                   ELSE [disp EXCEPT !.pc = "dispatch", !.files = sorted,
                                     !.i = 1]
  /\ UNCHANGED <<now, files, next_seg, gate_queue, analysis_queue,
                 gate_paths, analysis_paths, gate, workers, enq_count,
                 run_count, stale_at_start, cap_event>>
  /\ UNCHANGED outsidePipe

\* Mutant of CapLoopDone: the cap loop never stops early.
CapLoopNeverDone(dropped, drop_count) == FALSE

\* if dropped >= drop_count: break
CapLoopDone(dropped, drop_count) == dropped >= drop_count

\* One round of the cap loop: stop when enough were dropped, skip a tracked
\* path, otherwise go on to delete it.
DispCap ==
  /\ disp.pc = "cap"
  /\ disp.i <= Len(disp.files)
  /\ ~CapLoopDone(disp.dropped, disp.drop_count)
  /\ LET p == disp.files[disp.i]
     IN  disp' = IF Tracked(p)
                   THEN [disp EXCEPT !.i = disp.i + 1]
                   ELSE [disp EXCEPT !.pc = "cap_unlink", !.cur = p]
  /\ UNCHANGED <<now, files, next_seg, gate_queue, analysis_queue,
                 gate_paths, analysis_paths, gate, workers, enq_count,
                 run_count, stale_at_start, cap_event>>
  /\ UNCHANGED outsidePipe

\* path.unlink(missing_ok=True); dropped += 1
DispCapUnlink ==
  /\ disp.pc = "cap_unlink"
  /\ files' = Unlink(files, disp.cur)
  /\ disp' = [disp EXCEPT !.pc = "cap", !.cur = NoSeg, !.i = disp.i + 1,
                          !.dropped = disp.dropped + 1,
                          !.unlinked = Append(disp.unlinked, disp.cur)]
  /\ UNCHANGED <<now, next_seg, gate_queue, analysis_queue, gate_paths,
                 analysis_paths, gate, workers, enq_count, run_count,
                 stale_at_start, cap_event>>
  /\ UNCHANGED outsidePipe

\* After the cap loop: the event if anything was dropped, and
\* files = [path for path in files if path.exists()].
DispCapEnd ==
  /\ disp.pc = "cap"
  /\ disp.i > Len(disp.files) \/ CapLoopDone(disp.dropped, disp.drop_count)
  /\ cap_event' = disp.dropped
  /\ disp' = [disp EXCEPT !.pc = "dispatch", !.i = 1,
                          !.files = SelectSeq(disp.files, Exists)]
  /\ UNCHANGED <<now, files, next_seg, gate_queue, analysis_queue,
                 gate_paths, analysis_paths, gate, workers, enq_count,
                 run_count, stale_at_start>>
  /\ UNCHANGED outsidePipe

\* One path of the dispatch loop: ready and untracked goes to the gate.
DispDispatch ==
  /\ disp.pc = "dispatch"
  /\ disp.i <= Len(disp.files)
  /\ ~stop_event
  /\ LET p == disp.files[disp.i]
     IN  IF is_file_ready(p) /\ ~Tracked(p)
           THEN /\ gate_paths' = gate_paths \cup {p}
                /\ gate_queue' = Append(gate_queue, p)
           ELSE UNCHANGED <<gate_paths, gate_queue>>
  /\ disp' = [disp EXCEPT !.i = disp.i + 1]
  /\ UNCHANGED <<now, files, next_seg, analysis_queue, analysis_paths, gate,
                 workers, enq_count, run_count, stale_at_start, cap_event>>
  /\ UNCHANGED outsidePipe

\* The tick is complete (after time.sleep(0.2) when there were no files).
DispTickEnd ==
  /\ disp.pc = "dispatch"
  /\ disp.i > Len(disp.files)
  /\ disp' = LoopTop([DispIdle EXCEPT !.pc = "scan"])
  /\ UNCHANGED <<now, files, next_seg, gate_queue, analysis_queue,
                 gate_paths, analysis_paths, gate, workers, enq_count,
                 run_count, stale_at_start, cap_event>>
  /\ UNCHANGED outsidePipe

\* ---- the silence gate
\* The audio of a segment, as analyze_audio_activity reads it: chunks of
\* 50 ms with their level in dBFS and their length in hundredths of a second.
Chunk(db) == [db |-> db, dur |-> 5]

LoudAudio == <<Chunk(-30), Chunk(-60), Chunk(-30), Chunk(-30), Chunk(-30)>>

QuietAudio == <<Chunk(-60), Chunk(-60)>>

\* What ffmpeg recorded in segment p.
AudioOf(p) == IF p % 2 = 1 THEN LoudAudio ELSE QuietAudio

NoPeak == 1           \* peak_db is None
FloorDb == -120       \* max_db before the first chunk

\* The loop of analyze_audio_activity from chunk i on.
RECURSIVE ScanChunks(_, _, _, _, _, _)
ScanChunks(chunks, i, active, max_db, threshold_db, min_active) ==
  IF i > Len(chunks) THEN [is_active |-> FALSE, peak_db |-> max_db]
  ELSE LET db == chunks[i].db
           peak == IF db > max_db THEN db ELSE max_db
           sum == IF db >= threshold_db THEN active + chunks[i].dur ELSE active
       IN  IF db >= threshold_db /\ sum >= min_active
             THEN [is_active |-> TRUE, peak_db |-> peak]
             ELSE ScanChunks(chunks, i + 1, sum, peak, threshold_db,
                             min_active)

\* analyze_audio_activity(path, threshold_db, min_active_seconds) on a file
\* that can be read
analyze_audio_activity(chunks, threshold_db, min_active) ==
  IF min_active <= 0 THEN [is_active |-> TRUE, peak_db |-> NoPeak]
  ELSE IF chunks = <<>> THEN [is_active |-> FALSE, peak_db |-> NoPeak]
  ELSE ScanChunks(chunks, 1, 0, FloorDb, threshold_db, min_active)

\* The values POST /api/settings gives the two settings of the gate.
SilenceSettings == {<<-45, 20>>, <<-20, 20>>, <<-45, 0>>}

SilenceIdle ==
  /\ silence_threshold_db = -45
  /\ silence_min_seconds = 20
  /\ silent_events = <<>>

\* POST /api/settings with silence_threshold_db or silence_min_seconds
SetSilence(threshold_db, min_active) ==
  /\ <<threshold_db, min_active>> # <<silence_threshold_db, silence_min_seconds>>
  /\ silence_threshold_db' = threshold_db
  /\ silence_min_seconds' = min_active
  /\ UNCHANGED silent_events
  /\ UNCHANGED pipeVars
  /\ UNCHANGED <<storeVars, configVars, latestVars, supVars, anVars,
                 serverVars>>

\* ---- the gate worker
\* path = gate_queue.get(); gate_paths.discard(path)
GateGet ==
  /\ gate.pc = "get"
  /\ gate_queue # <<>>
  /\ gate' = [gate EXCEPT !.pc = "check", !.path = Head(gate_queue)]
  /\ gate_queue' = Tail(gate_queue)
  /\ gate_paths' = gate_paths \ {Head(gate_queue)}
  /\ UNCHANGED <<now, files, next_seg, analysis_queue, analysis_paths, disp,
                 workers, enq_count, run_count, stale_at_start, cap_event>>
  /\ UNCHANGED outsidePipe

\* if not path.exists() ... if not is_file_ready(path) ...
GateCheck ==
  /\ gate.pc = "check"
  /\ gate' = IF is_file_ready(gate.path)
               THEN [gate EXCEPT !.pc = "activity"]
               ELSE LoopTop(GateIdle)
  /\ UNCHANGED <<now, files, next_seg, gate_queue, analysis_queue,
                 gate_paths, analysis_paths, disp, workers, enq_count,
                 run_count, stale_at_start, cap_event>>
  /\ UNCHANGED outsidePipe

\* analyze_audio_activity: a file that cannot be opened counts as active; a
\* silent segment is deleted.
GateActivity(is_active) ==
  /\ gate.pc = "activity"
  /\ ~Exists(gate.path) => is_active
  /\ Exists(gate.path) =>
       is_active = analyze_audio_activity(AudioOf(gate.path),
                     silence_threshold_db, silence_min_seconds).is_active
  /\ IF is_active
       THEN /\ gate' = [gate EXCEPT !.pc = "qsize"]
            /\ UNCHANGED <<files, silent_events>>
       ELSE /\ gate' = LoopTop(GateIdle)
            /\ files' = Unlink(files, gate.path)
            /\ silent_events' = CountFrom(silent_events, gate.path)
  /\ UNCHANGED <<silence_threshold_db, silence_min_seconds>>
  /\ UNCHANGED <<now, next_seg, gate_queue, analysis_queue, gate_paths,
                 analysis_paths, disp, workers, enq_count, run_count,
                 stale_at_start, cap_event>>
  /\ UNCHANGED <<storeVars, configVars, latestVars, supVars, anVars,
                 serverVars>>

\* backlog = analysis_queue.qsize()
GateQsize ==
  /\ gate.pc = "qsize"
  /\ gate' = [gate EXCEPT !.pc = "paths", !.backlog = Len(analysis_queue)]
  /\ UNCHANGED <<now, files, next_seg, gate_queue, analysis_queue,
                 gate_paths, analysis_paths, disp, workers, enq_count,
                 run_count, stale_at_start, cap_event>>
  /\ UNCHANGED outsidePipe

\* Mutant of BacklogFull: the gate never finds the backlog full.
BacklogNeverFull(backlog, max_backlog) == FALSE

\* if backlog >= MAX_ANALYSIS_BACKLOG
BacklogFull(backlog, max_backlog) == backlog >= max_backlog

\* backlog += len(analysis_paths); at or over the limit the segment is
\* dropped and deleted.
GateBacklog(max_backlog) ==
  /\ gate.pc = "paths"
  /\ LET backlog == gate.backlog + Cardinality(analysis_paths)
     IN  IF BacklogFull(backlog, max_backlog)
           THEN /\ gate' = LoopTop([GateIdle EXCEPT !.backlog = backlog])
                /\ files' = Unlink(files, gate.path)
           ELSE /\ gate' = [gate EXCEPT !.pc = "enqueue", !.backlog = backlog]
                /\ UNCHANGED files
  /\ UNCHANGED <<now, next_seg, gate_queue, analysis_queue, gate_paths,
                 analysis_paths, disp, workers, enq_count, run_count,
                 stale_at_start, cap_event>>
  /\ UNCHANGED outsidePipe

\* analysis_paths.add(path); analysis_queue.put(path)
GateEnqueue ==
  /\ gate.pc = "enqueue"
  /\ analysis_paths' = analysis_paths \cup {gate.path}
  /\ analysis_queue' = Append(analysis_queue, gate.path)
  /\ enq_count' = CountUpTo(enq_count, gate.path)
  /\ gate' = LoopTop([GateIdle EXCEPT !.backlog = gate.backlog])
  /\ UNCHANGED <<now, files, next_seg, gate_queue, gate_paths, disp, workers,
                 run_count, stale_at_start, cap_event>>
  /\ UNCHANGED outsidePipe

\* ---- the analysis workers
\* path = analysis_queue.get()
WorkerGet(w) ==
  /\ workers[w].pc = "get"
  /\ analysis_queue # <<>>
  /\ workers' = [workers EXCEPT ![w] = [pc |-> "exists",
                                        path |-> Head(analysis_queue)]]
  /\ analysis_queue' = Tail(analysis_queue)
  /\ UNCHANGED <<now, files, next_seg, gate_queue, gate_paths,
                 analysis_paths, disp, gate, enq_count, run_count,
                 stale_at_start, cap_event>>
  /\ UNCHANGED outsidePipe

\* WorkerExists with a bare `continue` for the missing file: the path stays
\* in analysis_paths.
WorkerExistsKeeps(w) ==
  /\ workers[w].pc = "exists"
  /\ IF Exists(workers[w].path)
       THEN /\ workers' = [workers EXCEPT ![w].pc = "run"]
            /\ run_count' = CountUpTo(run_count, workers[w].path)
       ELSE /\ workers' = [workers EXCEPT ![w] = LoopTop(WorkerIdle)]
            /\ UNCHANGED run_count
  /\ UNCHANGED <<now, files, next_seg, gate_queue, analysis_queue,
                 gate_paths, analysis_paths, disp, gate, enq_count,
                 stale_at_start, cap_event>>
  /\ UNCHANGED outsidePipe

\* if not path.exists(): discard and go on; else analyze_segment is entered
WorkerExists(w) ==
  /\ workers[w].pc = "exists"
  /\ IF Exists(workers[w].path)
       THEN /\ workers' = [workers EXCEPT ![w].pc = "run"]
            /\ run_count' = CountUpTo(run_count, workers[w].path)
            /\ UNCHANGED analysis_paths
       ELSE /\ workers' = [workers EXCEPT ![w] = LoopTop(WorkerIdle)]
            /\ analysis_paths' = analysis_paths \ {workers[w].path}
            /\ UNCHANGED run_count
  /\ UNCHANGED <<now, files, next_seg, gate_queue, analysis_queue,
                 gate_paths, disp, gate, enq_count, stale_at_start,
                 cap_event>>
  /\ UNCHANGED outsidePipe

\* analyze_segment returns (it deleted the segment, with predictions or with
\* a classifier error) or raises (the segment stays); the finally clause
\* discards the path.
WorkerFinish(w, raised) ==
  /\ workers[w].pc = "run"
  /\ files' = IF raised THEN files ELSE Unlink(files, workers[w].path)
  /\ analysis_paths' = analysis_paths \ {workers[w].path}
  /\ workers' = [workers EXCEPT ![w] = LoopTop(WorkerIdle)]
  /\ UNCHANGED <<now, next_seg, gate_queue, analysis_queue, gate_paths,
                 disp, gate, enq_count, run_count, stale_at_start,
                 cap_event>>
  /\ UNCHANGED outsidePipe

Dispatcher(max_age, cap) ==
  \/ DispScan(max_age)
  \/ DispAge(max_age)
  \/ DispAgeUnlink
  \/ DispSort(cap)
  \/ DispCap
  \/ DispCapUnlink
  \/ DispCapEnd
  \/ DispDispatch
  \/ DispTickEnd

GateWorker(max_backlog) ==
  \/ GateGet
  \/ GateCheck
  \/ \E is_active \in BOOLEAN : GateActivity(is_active)
  \/ GateQsize
  \/ GateBacklog(max_backlog)
  \/ GateEnqueue

AnalysisWorker(w) ==
  \/ WorkerGet(w)
  \/ WorkerExists(w)
  \/ \E raised \in BOOLEAN : WorkerFinish(w, raised)

PipeNext ==
  \/ \E v \in SilenceSettings : SetSilence(v[1], v[2])
  \/ NewSegment
  \/ Tick
  \/ Dispatcher(SmallAge, SmallQueueCap)
  \/ GateWorker(SmallBacklog)
  \/ \E w \in 1..SmallWorkers : AnalysisWorker(w)

\* ---- the dispatcher on a full-size directory
CapExcess == 10       \* files over MAX_QUEUE_SEGMENTS that ffmpeg writes
MaxCapShort == 2      \* the clock moves second by second up to here
MaxCapClock == 32     \* and by the age limit up to here

BatchSizes == {CapExcess, MAX_QUEUE_SEGMENTS + CapExcess}

CapInit == PipeStarted(<<>>, <<>>, <<>>, ANALYSIS_WORKERS)

BetweenTicks == disp.pc = "scan"

\* ffmpeg has written its segments up to number n since it started
\* (segment_%06d.wav, overwriting: -y).
WriteSegments(n) ==
  /\ BetweenTicks
  /\ next_seg <= n
  /\ files' = [p \in DOMAIN files \cup (next_seg..n) |->
                 IF p \in next_seg..n THEN now ELSE files[p]]
  /\ enq_count' = [p \in DOMAIN enq_count \cup (next_seg..n) |->
                     IF p \in DOMAIN enq_count THEN enq_count[p] ELSE 0]
  /\ run_count' = [p \in DOMAIN run_count \cup (next_seg..n) |->
                     IF p \in DOMAIN run_count THEN run_count[p] ELSE 0]
  /\ next_seg' = n + 1
  /\ UNCHANGED <<now, gate_queue, analysis_queue, gate_paths, analysis_paths,
                 disp, gate, workers, stale_at_start, cap_event>>
  /\ UNCHANGED outsidePipe

\* capture_loop ends ffmpeg and starts it again, on the restart flag or,
\* after clear_tmp_segments, on a stall: the numbering starts over.
RestartCapture(stalled) ==
  /\ BetweenTicks
  /\ next_seg > 1
  /\ next_seg' = 1
  /\ files' = IF stalled THEN <<>> ELSE files
  /\ UNCHANGED <<now, gate_queue, analysis_queue, gate_paths, analysis_paths,
                 disp, gate, workers, enq_count, run_count, stale_at_start,
                 cap_event>>
  /\ UNCHANGED outsidePipe

Elapse(seconds, limit) ==
  /\ BetweenTicks
  /\ now + seconds <= limit
  /\ now' = now + seconds
  /\ UNCHANGED <<files, next_seg, gate_queue, analysis_queue, gate_paths,
                 analysis_paths, disp, gate, workers, enq_count, run_count,
                 stale_at_start, cap_event>>
  /\ UNCHANGED outsidePipe

CapNext ==
  \/ \E n \in BatchSizes : WriteSegments(n)
  \/ \E stalled \in BOOLEAN : RestartCapture(stalled)
  \/ Elapse(1, MaxCapShort)
  \/ Elapse(MAX_SEGMENT_AGE_SECONDS, MaxCapClock)
  \/ Dispatcher(MAX_SEGMENT_AGE_SECONDS, MAX_QUEUE_SEGMENTS)

(***************************************************************************)
(* 5. Capture supervisor: capture_loop, its watchdog and the orphan reaper *)
(***************************************************************************)

\* ---- bounds of the supervisor model
MaxChildren == 3      \* children Popen may start
SupStep == 6          \* seconds the clock moves at a time
MaxSupClock == 36     \* seconds the clock runs

NoPid == 0            \* current_capture_pid is None
OrphanPid == 1        \* an ffmpeg left by an earlier run of the server
ForeignPid == 2       \* an ffmpeg that does not write to the segment directory
FirstChildPid == 3    \* pid of the first child Popen starts

\* The fields of the snapshot that build_ffmpeg_command reads.
CommandKeys == {"input_mode", "rtmp_url", "segment_seconds"}

\* A command built from the defaults, whatever the snapshot holds.
CommandOfDefaults(snapshot) == [k \in CommandKeys |-> DEFAULT_CONFIG[k]]

CommandOf(snapshot) == [k \in CommandKeys |-> snapshot[k]]

\* Mutant of build_ffmpeg_error: a command is built from any settings.
build_ffmpeg_error_none(snapshot) == ""

\* build_ffmpeg_command: the error it returns, "" when it returns a command.
\* The configuration of the model has no input_device, so config.get gives "".
build_ffmpeg_error(snapshot) ==
  IF snapshot.input_mode = Str("avfoundation") THEN "Audio input not set"
  ELSE IF snapshot.rtmp_url = Str("") THEN "Stream URL not set"
  ELSE ""

\* One ffmpeg process: whether its command line holds the marker
\* str(TMP_DIR / "segment_"), and the settings its command was built from.
Process(marker, command) == [marker |-> marker, command |-> command]

\* float(snapshot.get("segment_seconds", 3)), 3 on TypeError / ValueError.
SegmentSecondsOf(snapshot) ==
  LET f == PyFloat(snapshot.segment_seconds)
  IN  IF f = {} THEN Num(300) ELSE CHOOSE x \in f : TRUE

\* A stall timeout that ignores the segment length.
stall_timeout_fixed(snapshot) == 1000

\* stall_timeout = max(10.0, segment_seconds * 5.0), in hundredths.
stall_timeout(snapshot) ==
  LET s == SegmentSecondsOf(snapshot)
  IN  IF s.kind = "num" /\ s.n * 5 > 1000 THEN s.n * 5 ELSE 1000

\* latest_segment_mtime(): 0 stands for None (and is as falsy as None).
latest_segment_mtime(dir) ==
  IF DOMAIN dir = {} THEN 0
  ELSE CHOOSE t \in {dir[p] : p \in DOMAIN dir} :
         \A p \in DOMAIN dir : dir[p] <= t

\* The processes cleanup_capture_processes picks from the listing.
ReapCandidates(listing, allowed_pids) ==
  {p \in DOMAIN listing : listing[p].marker /\ p \notin allowed_pids}

Kill(ps, pids) == [p \in DOMAIN ps \ pids |-> ps[p]]

\* What a signal sent by the reaper reached.
Signal(reason, sig, p) ==
  [by |-> reason, sig |-> sig, marker |-> procs[p].marker,
   current |-> (p = current_capture_pid)]

SupStart ==
  [pc |-> "startup", snapshot |-> DEFAULT_CONFIG, pid |-> NoPid,
   restart_requested |-> FALSE, last_segment_time |-> 0,
   stall_timeout |-> 0, stall_count |-> 0, last_restart_log |-> 0,
   last_status |-> ""]

WdStart == [pc |-> "read", pid |-> NoPid, todo |-> {}, candidates |-> {}]

\* main has started capture_loop; left are the given ffmpeg processes.
SupStarted(installed, left) ==
  /\ req = "idle"
  /\ ffmpeg_installed = installed
  /\ sup = SupStart
  /\ procs = left
  /\ next_pid = FirstChildPid
  /\ current_capture_pid = NoPid
  /\ wd = WdStart
  /\ sup_status = ""
  /\ sup_event = ""
  /\ sig_log = {}

SupIdle == SupStarted(TRUE, <<>>)

LeftProcesses ==
  {ps \in [{OrphanPid, ForeignPid} -> {Process(TRUE, CommandOf(DEFAULT_CONFIG)),
                                       Process(FALSE, CommandOf(DEFAULT_CONFIG))}] :
     ps[OrphanPid].marker /\ ~ps[ForeignPid].marker}

SupInit ==
  \E installed \in BOOLEAN :
    \E ps \in LeftProcesses \cup {<<>>} : SupStarted(installed, ps)

\* What no step of this section changes.
supFrame == <<storeVars, latestVars, silenceVars, anVars, serverVars,
              settings_file, cfg_op, cfg_updates,
              cfg_changed, cfg_signalled, next_seg, gate_queue,
              analysis_queue, gate_paths, analysis_paths, disp, gate,
              workers, enq_count, run_count, stale_at_start, cap_event,
              ffmpeg_installed>>

\* ---- POST /api/settings -> update_config, in the two steps other threads
\* can tell apart: the change under config_lock, then restart_capture.set()
SupPatches ==
  {[k \in {"rtmp_url"} |-> Str("rtsp://example/stream")],
   [k \in {"rtmp_url"} |-> Str("")],
   [k \in {"segment_seconds"} |-> Num(300)],
   [k \in {"segment_seconds"} |-> Num(100)]}

SettingsApply(updates) ==
  LET changed == ChangedKeys(config, updates)
  IN  /\ req = "idle"
      /\ changed # {}
      /\ config' = ConfigAfter(config, updates)
      /\ req' = IF restart_fields \cap changed # {} THEN "signal" ELSE "idle"
      /\ UNCHANGED <<restart_capture, now, files, sup, procs, next_pid,
                     current_capture_pid, wd, sup_status, sup_event, sig_log>>
      /\ UNCHANGED supFrame

SettingsSignal ==
  /\ req = "signal"
  /\ restart_capture' = TRUE
  /\ req' = "idle"
  /\ UNCHANGED <<config, now, files, sup, procs, next_pid,
                 current_capture_pid, wd, sup_status, sup_event, sig_log>>
  /\ UNCHANGED supFrame

\* POST /api/restart
RestartRequest ==
  /\ ~restart_capture
  /\ restart_capture' = TRUE
  /\ sup_event' = "Capture restart requested"
  /\ UNCHANGED <<config, req, now, files, sup, procs, next_pid,
                 current_capture_pid, wd, sup_status, sig_log>>
  /\ UNCHANGED supFrame

\* ---- the environment of the supervisor
SupElapse ==
  /\ now + SupStep <= MaxSupClock
  /\ now' = now + SupStep
  /\ UNCHANGED <<config, restart_capture, req, files, sup, procs, next_pid,
                 current_capture_pid, wd, sup_status, sup_event, sig_log>>
  /\ UNCHANGED supFrame

\* An ffmpeg that writes to the segment directory closes a segment.
ChildWrites ==
  /\ \E p \in DOMAIN procs : procs[p].marker
  /\ files' = [q \in DOMAIN files \cup {1} |-> IF q = 1 THEN now ELSE files[q]]
  /\ UNCHANGED <<config, restart_capture, req, now, sup, procs, next_pid,
                 current_capture_pid, wd, sup_status, sup_event, sig_log>>
  /\ UNCHANGED supFrame

\* process_loop has handled and deleted the segments.
SegmentsConsumed ==
  /\ DOMAIN files # {}
  /\ files' = <<>>
  /\ UNCHANGED <<config, restart_capture, req, now, sup, procs, next_pid,
                 current_capture_pid, wd, sup_status, sup_event, sig_log>>
  /\ UNCHANGED supFrame

\* The input ends and the child exits by itself.
ChildExits ==
  /\ sup.pid \in DOMAIN procs
  /\ procs' = Kill(procs, {sup.pid})
  /\ UNCHANGED <<config, restart_capture, req, now, files, sup, next_pid,
                 current_capture_pid, wd, sup_status, sup_event, sig_log>>
  /\ UNCHANGED supFrame

\* ---- capture_loop
\* cleanup_capture_processes("startup"), then the watchdog thread starts
SupStartup ==
  LET candidates == ReapCandidates(procs, {})
  IN  /\ sup.pc = "startup"
      /\ procs' = Kill(procs, candidates)
      /\ sig_log' = sig_log \cup {Signal("startup", "TERM", p) : p \in candidates}
      /\ sup_event' = IF candidates = {} THEN sup_event
                      ELSE "Cleaned orphan capture process(es) (startup)"
      /\ sup' = LoopTop([sup EXCEPT !.pc = "snapshot"])
      /\ UNCHANGED <<config, restart_capture, req, now, files, next_pid,
                     current_capture_pid, wd, sup_status>>
      /\ UNCHANGED supFrame

\* Mutant of resolve_ffmpeg_path: a path whatever is installed.
resolve_ffmpeg_path_found == "ffmpeg"

\* resolve_ffmpeg_path(): shutil.which("ffmpeg") or the first fallback path
\* that exists, else None (here "").
resolve_ffmpeg_path == IF ffmpeg_installed THEN "ffmpeg" ELSE ""

\* snapshot = get_config_snapshot(config); resolve_ffmpeg_path()
SupSnapshot ==
  /\ sup.pc = "snapshot"
  /\ IF resolve_ffmpeg_path # ""
       THEN /\ sup' = [sup EXCEPT !.pc = "build", !.snapshot = config]
            /\ UNCHANGED <<sup_status, sup_event>>
       ELSE /\ sup' = [sup EXCEPT !.pc = "returned", !.snapshot = config,
                                  !.last_status = "ffmpeg not found"]
            /\ sup_status' = "error: ffmpeg not found"
            /\ sup_event' = "ffmpeg not found"
  /\ UNCHANGED <<config, restart_capture, req, now, files, procs, next_pid,
                 current_capture_pid, wd, sig_log>>
  /\ UNCHANGED supFrame

\* build_ffmpeg_command; on an error publish it, else publish "Listening"
\* and Popen the command
SupBuild ==
  LET error == build_ffmpeg_error(sup.snapshot)
  IN  /\ sup.pc = "build"
      /\ IF error # ""
           THEN /\ sup' = [sup EXCEPT !.pc = "err_test", !.last_status = error]
                /\ sup_status' = "idle: " \o error
                /\ sup_event' = IF error # sup.last_status THEN error
                                  ELSE sup_event
                /\ UNCHANGED <<procs, next_pid>>
           ELSE /\ next_pid < FirstChildPid + MaxChildren
                /\ sup' = [sup EXCEPT !.pc = "setpid", !.pid = next_pid,
                                      !.last_status = "Listening"]
                /\ sup_status' = "listening: Listening"
                /\ sup_event' = IF sup.last_status # "Listening"
                                    THEN "Listening" ELSE sup_event
                /\ procs' = [p \in DOMAIN procs \cup {next_pid} |->
                               IF p = next_pid
                                 THEN Process(TRUE, CommandOf(sup.snapshot))
                                 ELSE procs[p]]
                /\ next_pid' = next_pid + 1
      /\ UNCHANGED <<config, restart_capture, req, now, files,
                     current_capture_pid, wd, sig_log>>
      /\ UNCHANGED supFrame

\* if restart_capture.is_set(): ... else time.sleep(1); continue
SupErrTest ==
  /\ sup.pc = "err_test"
  /\ sup' = IF restart_capture THEN [sup EXCEPT !.pc = "err_clear"]
             ELSE LoopTop([sup EXCEPT !.pc = "snapshot"])
  /\ UNCHANGED <<config, restart_capture, req, now, files, procs, next_pid,
                 current_capture_pid, wd, sup_status, sup_event, sig_log>>
  /\ UNCHANGED supFrame

\* restart_capture.clear(); time.sleep(1); continue
SupErrClear ==
  /\ sup.pc = "err_clear"
  /\ restart_capture' = FALSE
  /\ sup' = LoopTop([sup EXCEPT !.pc = "snapshot"])
  /\ UNCHANGED <<config, req, now, files, procs, next_pid,
                 current_capture_pid, wd, sup_status, sup_event, sig_log>>
  /\ UNCHANGED supFrame

\* set_current_capture_pid(process.pid) and the locals of the inner loop
SupSetPid ==
  LET latest == latest_segment_mtime(files)
  IN  /\ sup.pc = "setpid"
      /\ current_capture_pid' = sup.pid
      /\ sup' = [sup EXCEPT !.pc = "poll", !.restart_requested = FALSE,
                            !.last_segment_time = IF latest # 0 THEN latest ELSE now,
                            !.stall_timeout = stall_timeout(sup.snapshot)]
      /\ UNCHANGED <<config, restart_capture, req, now, files, procs, next_pid,
                     wd, sup_status, sup_event, sig_log>>
      /\ UNCHANGED supFrame

\* while process.poll() is None and not stop_event.is_set():
\*   if restart_capture.is_set(): ...
SupPoll ==
  /\ sup.pc = "poll"
  /\ sup' = [sup EXCEPT !.pc = IF sup.pid \notin DOMAIN procs \/ stop_event
                                 THEN "after"
                               ELSE IF restart_capture THEN "flag_clear"
                               ELSE "stall",
                        !.restart_requested =
                           IF sup.pid \in DOMAIN procs /\ ~stop_event
                                /\ restart_capture
                             THEN TRUE ELSE @]
  /\ UNCHANGED <<config, restart_capture, req, now, files, procs, next_pid,
                 current_capture_pid, wd, sup_status, sup_event, sig_log>>
  /\ UNCHANGED supFrame

\* restart_capture.clear(); process.terminate(); break; process.wait;
\* set_current_capture_pid(None)
SupFlagClear ==
  /\ sup.pc = "flag_clear"
  /\ restart_capture' = FALSE
  /\ procs' = Kill(procs, {sup.pid})
  /\ current_capture_pid' = NoPid
  /\ sup' = [sup EXCEPT !.pc = "after"]
  /\ UNCHANGED <<config, req, now, files, next_pid, wd, sup_status,
                 sup_event, sig_log>>
  /\ UNCHANGED supFrame

\* The rest of one round of the inner loop: a newer segment, the stall test
\* and what the loop does on a stall; else time.sleep(0.5).
SupStall ==
  LET latest == latest_segment_mtime(files)
      newer == latest # 0 /\ latest > sup.last_segment_time
      last == IF newer THEN latest ELSE sup.last_segment_time
      count == IF newer THEN 0 ELSE sup.stall_count
      stalled == (now - last) * 100 > sup.stall_timeout
      logged == now - sup.last_restart_log > 15
      reset == count + 1 >= 3
      candidates == IF reset THEN ReapCandidates(procs, {}) ELSE {}
  IN  /\ sup.pc = "stall"
      /\ IF stalled
           THEN /\ files' = <<>>
                /\ sup' = [sup EXCEPT !.pc = "after", !.last_segment_time = last,
                                      !.stall_count = IF reset THEN 0 ELSE count + 1,
                                      !.restart_requested = TRUE,
                                      !.last_restart_log = IF logged THEN now ELSE @]
                /\ sup_event' =
                     IF candidates # {}
                       THEN "Cleaned orphan capture process(es) (stall reset)"
                     ELSE IF reset
                       THEN "Repeated stalls detected, forcing capture reset"
                     ELSE IF DOMAIN files # {}
                       THEN "Cleared pending segments (stall)"
                     ELSE IF logged
                       THEN "No new audio segments, restarting capture"
                     ELSE sup_event
                /\ sig_log' = sig_log \cup {Signal("stall reset", "TERM", p) : p \in candidates}
                /\ procs' = Kill(procs, candidates \cup {sup.pid})
                /\ current_capture_pid' = NoPid
           ELSE /\ sup' = [sup EXCEPT !.pc = "poll", !.last_segment_time = last,
                                      !.stall_count = count]
                /\ UNCHANGED <<files, sup_event, sig_log, procs,
                               current_capture_pid>>
      /\ UNCHANGED <<config, restart_capture, req, now, next_pid, wd, sup_status>>
      /\ UNCHANGED supFrame

\* After the inner loop: a child that still runs is waited for and killed;
\* set_current_capture_pid(None); on stop_event the loop is left; a requested
\* restart continues at once, else "Input disconnected, retrying" and
\* time.sleep(2).
SupAfter ==
  /\ sup.pc = "after"
  /\ procs' = Kill(procs, {sup.pid})
  /\ current_capture_pid' = NoPid
  /\ IF stop_event
       THEN /\ sup' = [sup EXCEPT !.pc = "exited", !.pid = NoPid]
            /\ UNCHANGED <<sup_status, sup_event>>
       ELSE /\ sup' = [sup EXCEPT !.pc = "snapshot", !.pid = NoPid,
                          !.last_status = IF sup.restart_requested THEN @
                                          ELSE "Input disconnected, retrying"]
            /\ sup_status' = IF sup.restart_requested THEN sup_status
                             ELSE "idle: Input disconnected, retrying"
            /\ sup_event' = IF sup.restart_requested
                                \/ sup.last_status = "Input disconnected, retrying"
                              THEN sup_event ELSE "Input disconnected, retrying"
  /\ UNCHANGED <<config, restart_capture, req, now, files, next_pid,
                 wd, sig_log>>
  /\ UNCHANGED supFrame

\* ---- capture_watchdog and cleanup_capture_processes("watchdog", {pid})
\* pid = get_current_capture_pid(); if pid: ...
WdRead ==
  /\ wd.pc = "read"
  /\ sup.pc # "startup"
  /\ current_capture_pid # NoPid
  /\ wd' = [wd EXCEPT !.pc = "list", !.pid = current_capture_pid]
  /\ UNCHANGED <<config, restart_capture, req, now, files, sup, procs, next_pid,
                 current_capture_pid, sup_status, sup_event, sig_log>>
  /\ UNCHANGED supFrame

\* _list_ffmpeg_processes() and the choice of the candidates
WdList ==
  LET candidates == ReapCandidates(procs, {wd.pid})
  IN  /\ wd.pc = "list"
      /\ wd' = IF candidates = {} THEN WdStart
               ELSE [wd EXCEPT !.pc = "term", !.todo = candidates,
                               !.candidates = candidates]
      /\ UNCHANGED <<config, restart_capture, req, now, files, sup, procs,
                     next_pid, current_capture_pid, sup_status, sup_event,
                     sig_log>>
      /\ UNCHANGED supFrame

\* os.kill(pid, signal.SIGTERM) for one candidate; the process exits on it
\* or lingers; ProcessLookupError when it is gone already
WdTerm(p, exits) ==
  /\ wd.pc = "term"
  /\ p \in wd.todo
  /\ wd' = [wd EXCEPT !.todo = @ \ {p},
                      !.pc = IF wd.todo = {p} THEN "kill" ELSE "term"]
  /\ IF p \in DOMAIN procs
       THEN /\ sig_log' = sig_log \cup {Signal("watchdog", "TERM", p)}
            /\ procs' = IF exits THEN Kill(procs, {p}) ELSE procs
       ELSE UNCHANGED <<sig_log, procs>>
  /\ UNCHANGED <<config, restart_capture, req, now, files, sup, next_pid,
                 current_capture_pid, sup_status, sup_event>>
  /\ UNCHANGED supFrame

\* After the wait of up to 2 s: os.kill(pid, signal.SIGKILL) for the
\* candidates that still exist, then log_event and time.sleep(5)
WdKill ==
  LET remaining == wd.candidates \cap DOMAIN procs
  IN  /\ wd.pc = "kill"
      /\ sig_log' = sig_log \cup {Signal("watchdog", "KILL", p) : p \in remaining}
      /\ procs' = Kill(procs, remaining)
      /\ sup_event' = "Cleaned orphan capture process(es) (watchdog)"
      /\ wd' = WdStart
      /\ UNCHANGED <<config, restart_capture, req, now, files, sup, next_pid,
                     current_capture_pid, sup_status>>
      /\ UNCHANGED supFrame

Supervisor ==
  \/ SupStartup
  \/ SupSnapshot
  \/ SupBuild
  \/ SupErrTest
  \/ SupErrClear
  \/ SupSetPid
  \/ SupPoll
  \/ SupFlagClear
  \/ SupStall
  \/ SupAfter

Watchdog ==
  \/ WdRead
  \/ WdList
  \/ \E p \in wd.todo : \E exits \in BOOLEAN : WdTerm(p, exits)
  \/ WdKill

\* The supervisor, its watchdog and the requests that restart capture.
SupNext ==
  \/ \E updates \in SupPatches : SettingsApply(updates)
  \/ SettingsSignal
  \/ RestartRequest
  \/ ChildExits
  \/ Supervisor
  \/ Watchdog

\* The supervisor and the clock, with the settings settings.json holds.
LoadedConfigs ==
  {[DEFAULT_CONFIG EXCEPT !.rtmp_url = u, !.segment_seconds = s] :
     u \in {Str(""), Str("rtsp://example/stream")}, s \in {Num(100), Num(300)}}

StallInit ==
  \E ps \in {<<>>, [p \in {OrphanPid} |-> Process(TRUE, CommandOf(DEFAULT_CONFIG))]} :
    SupStarted(TRUE, ps)

StallNext ==
  \/ RestartRequest
  \/ SupElapse
  \/ ChildWrites
  \/ SegmentsConsumed
  \/ ChildExits
  \/ Supervisor

(***************************************************************************)
(* Section 6.  Segment analysis (analyze_segment, run_birdnet)             *)
(***************************************************************************)

\* ---- bounds of the analysis model
AnWorkers == 2      \* analysis workers running analyze_segment
AnSegments == 2     \* segment files waiting in tmp/ at the start
AnRounds == 1       \* segments one worker takes

AnWorkerIds == 1..AnWorkers

TopN == 3           \* above[:3], below[:3]

\* config["min_confidence"] of DEFAULT_CONFIG, in hundredths.
DefaultMinConfidence == 25

MinConfidences == {DefaultMinConfidence, 50}

\* ---- extract_predictions
\* One row of the classifier's CSV: the species cell and the confidence cell.
CsvRow(species, cell) == [species |-> species, cell |-> cell]

Prediction(species, confidence) ==
  [species |-> species, confidence |-> confidence]

\* The rows float() accepts, in file order; a cell that raises is skipped and
\* an empty species cell reads "Unknown".
RECURSIVE ParseRows(_)
ParseRows(rows) ==
  IF rows = <<>> THEN <<>>
  ELSE LET row == Head(rows)
           parsed == PyFloat(row.cell)
       IN  IF parsed = {} THEN ParseRows(Tail(rows))
           ELSE <<Prediction(IF row.species = "" THEN "Unknown"
                             ELSE row.species,
                             CHOOSE x \in parsed : TRUE)>>
                \o ParseRows(Tail(rows))

\* Python's a < b on two confidences: false whenever either is NaN.
PyLess(a, b) == a.kind = "num" /\ b.kind = "num" /\ a.n < b.n

\* Python's a >= b and a < b against the numeric threshold.
AtLeast(confidence, threshold) ==
  confidence.kind = "num" /\ confidence.n >= threshold

Under(confidence, threshold) ==
  confidence.kind = "num" /\ confidence.n < threshold

\* list.sort on a list shorter than 64: count_run finds the leading run
\* (strictly descending or non-descending under <), a descending run is
\* reversed, and the rest is put in place by binary insertion.
RECURSIVE DescendingEnd(_, _)
DescendingEnd(a, k) ==
  IF k <= Len(a) /\ PyLess(a[k].confidence, a[k - 1].confidence)
    THEN DescendingEnd(a, k + 1)
    ELSE k - 1

RECURSIVE AscendingEnd(_, _)
AscendingEnd(a, k) ==
  IF k <= Len(a) /\ ~PyLess(a[k].confidence, a[k - 1].confidence)
    THEN AscendingEnd(a, k + 1)
    ELSE k - 1

count_run(a) ==
  IF Len(a) <= 1 THEN [n |-> Len(a), descending |-> FALSE]
  ELSE IF PyLess(a[2].confidence, a[1].confidence)
    THEN [n |-> DescendingEnd(a, 3), descending |-> TRUE]
    ELSE [n |-> AscendingEnd(a, 3), descending |-> FALSE]

\* The insertion point of pivot among a[1..r] (l and r count from 0).
RECURSIVE BinaryPosition(_, _, _, _)
BinaryPosition(a, pivot, l, r) ==
  IF l >= r THEN l
  ELSE LET p == l + ((r - l) \div 2)
       IN  IF PyLess(pivot.confidence, a[p + 1].confidence)
             THEN BinaryPosition(a, pivot, l, p)
             ELSE BinaryPosition(a, pivot, p + 1, r)

\* binarysort: a[1..start] is in place, the elements after it are inserted.
RECURSIVE binarysort(_, _)
binarysort(a, start) ==
  IF start >= Len(a) THEN a
  ELSE LET pivot == a[start + 1]
           l == BinaryPosition(a, pivot, 0, start)
       IN  binarysort(SubSeq(a, 1, l) \o <<pivot>> \o SubSeq(a, l + 1, start)
                        \o SubSeq(a, start + 2, Len(a)),
                      start + 1)

list_sort(a) ==
  IF Len(a) < 2 THEN a
  ELSE LET run == count_run(a)
           b == IF run.descending
                  THEN Reverse(SubSeq(a, 1, run.n))
                         \o SubSeq(a, run.n + 1, Len(a))
                  ELSE a
       IN  binarysort(b, run.n)

\* Mutant of sort_by_confidence: the list is left in file order.
sort_not_at_all(predictions) == predictions

\* predictions.sort(key=confidence, reverse=True): the list is reversed,
\* sorted, and reversed again.
sort_by_confidence(predictions) == Reverse(list_sort(Reverse(predictions)))

extract_predictions(rows) == sort_by_confidence(ParseRows(rows))

Take(s, n) == IF Len(s) <= n THEN s ELSE SubSeq(s, 1, n)

AboveOf(predictions, threshold) ==
  Take(SelectSeq(predictions, LAMBDA p : AtLeast(p.confidence, threshold)),
       TopN)

BelowOf(predictions, threshold) ==
  Take(SelectSeq(predictions, LAMBDA p : Under(p.confidence, threshold)),
       TopN)

\* ---- what the classifier writes
CsvFiles ==
  {<<CsvRow("Robin", Num(91))>>,
   <<CsvRow("Wren", Num(30)), CsvRow("Robin", Num(91))>>,
   <<CsvRow("Robin", Num(10))>>,
   <<CsvRow("Wren", Num(30)), CsvRow("Robin", Num(91)),
     CsvRow("Jay", Num(60)), CsvRow("Owl", Num(40))>>,
   <<CsvRow("Robin", Num(10)), CsvRow("Wren", Num(5)),
     CsvRow("Jay", Num(20)), CsvRow("Owl", Num(15))>>,
   <<CsvRow("Wren", Num(30)), CsvRow("Jay", Str("nan")),
     CsvRow("Robin", Num(91))>>,
   <<CsvRow("Robin", Num(91)), CsvRow("Wren", Num(10)),
     CsvRow("Jay", Str(""))>>,
   <<>>}

\* ---- run directories
\* Mutant of run_dir_name: the directory is named after the input file.
run_dir_by_stem(uuid, stem) == "birdnet_" \o ToString(stem)

\* output_target / f"birdnet_{uuid.uuid4().hex}"
run_dir_name(uuid, stem) == "birdnet_" \o ToString(uuid)

\* run_dir / f"{input_path.stem}.BirdNET.results.csv"
OutputFile(dir, stem) == [dir |-> dir, stem |-> stem]

\* shutil.rmtree(dir): the directory and what it holds.
RemoveTree(tree, dir) ==
  [f \in {g \in DOMAIN tree : g.dir # dir} |-> tree[f]]

RemoveFile(tree, f) == [g \in DOMAIN tree \ {f} |-> tree[g]]

\* ---- messages
NoError == ""
TemplateNotSet == "BIRDNET_TEMPLATE not set"
TemplateMalformed == "BIRDNET_TEMPLATE must include {input} and {output}."
CommandNotFound == "BirdNET command not found. Set BIRDNET_TEMPLATE."
TimedOut == "BirdNET timed out."
Failed == "BirdNET failed."
Unreadable == "Unable to read BirdNET output."

\* The templates configured: none, one without {output}, a usable one.
Templates == {"", "analyze {input}", "analyze {input} -o {output}"}

TemplateUsable(template) == template = "analyze {input} -o {output}"

\* What subprocess.run ends in.
RunOutcomes == {"not_found", "timeout", "failed", "no_csv", "csv"}

Event(type, message, about, flagged) ==
  [type |-> type, message |-> message, about |-> about,
   below_threshold |-> flagged]

\* ---- best clips
NoSnr == -1000     \* compute_snr_db returned None

\* compute_snr_db(segment), in dB: what the audio of the segment gives.
SnrOf(p) == IF p = 1 THEN 5 ELSE 12

\* normalize_confidence on a float, in hundredths.
normalize_confidence(c) ==
  IF c.kind = "nan" THEN 100
  ELSE LET n == IF c.n > 100 THEN c.n \div 100 ELSE c.n
       IN  IF n < 0 THEN 0 ELSE IF n > 100 THEN 100 ELSE n

\* compute_clip_score(confidence, snr_db), confidence in hundredths.
compute_clip_score(confidence, snr_db) ==
  confidence + (IF snr_db = NoSnr THEN 0 ELSE snr_db)

ClipEntry(species, confidence, snr_db, score, clip) ==
  [species |-> species, confidence |-> confidence, snr_db |-> snr_db,
   score |-> score, clip |-> clip]

\* confidence_value + 0.02 < existing_conf in binary floating point: for
\* these hundredths the sum rounds below a value exactly 0.02 above.
RoundsBelow == {<<12, 14>>, <<15, 17>>, <<18, 20>>, <<21, 23>>}

MateriallyWorse(confidence_value, existing_conf) ==
  \/ confidence_value + 2 < existing_conf
  \/ <<confidence_value, existing_conf>> \in RoundsBelow

\* One pass of the loop of update_best_clips; copies is the set of species
\* for which shutil.copy2 succeeds.
BestClipStep(index, segment, snr_db, prediction, copies) ==
  LET species == IF prediction.species = "" THEN "Unknown"
                 ELSE prediction.species
      confidence_value == normalize_confidence(prediction.confidence)
      score == compute_clip_score(confidence_value, snr_db)
      known == species \in DOMAIN index
      existing_conf == IF known THEN normalize_confidence(index[species].confidence)
                       ELSE -100
      existing_score == IF known THEN index[species].score
                        ELSE compute_clip_score(existing_conf, NoSnr)
  IN  IF MateriallyWorse(confidence_value, existing_conf) THEN index
      ELSE IF score <= existing_score THEN index
      ELSE IF species \notin copies THEN index
      ELSE [s \in DOMAIN index \cup {species} |->
              IF s = species
                THEN ClipEntry(species, prediction.confidence, snr_db, score,
                               segment)
                ELSE index[s]]

RECURSIVE update_best_clips(_, _, _, _, _)
update_best_clips(index, segment, snr_db, predictions, copies) ==
  IF predictions = <<>> THEN index
  ELSE update_best_clips(
         BestClipStep(index, segment, snr_db, Head(predictions), copies),
         segment, snr_db, Tail(predictions), copies)

\* ---- state
\* clip_op before update_best_clips has run.
NoClipOp ==
  [segment |-> 0, snr_db |-> NoSnr, predictions |-> <<>>, copies |-> {}]

AnLocals(pc, path, run_dir, csv, predictions, error, emitted) ==
  [pc |-> pc, path |-> path, run_dir |-> run_dir, csv |-> csv,
   predictions |-> predictions, error |-> error, emitted |-> emitted,
   round |-> 0]

NoDir == ""

AnRest == AnLocals("idle", 0, NoDir, FALSE, <<>>, NoError, <<>>)

NoDetection == [species |-> "", top_predictions |-> <<>>, timestamp |-> -1]

NothingPublished ==
  [status |-> "", status_message |-> "", species |-> "",
   top_predictions |-> <<>>, last_detection |-> NoDetection,
   log_revision |-> 0]

AnStarted(template, threshold) ==
  /\ birdnet_template = template
  /\ min_confidence = threshold
  /\ an = [w \in AnWorkerIds |-> AnRest]
  /\ out_dirs = {}
  /\ out_files = <<>>
  /\ next_uuid = 1
  /\ last_detection = NoDetection
  /\ analysis_last_error = NoError
  /\ published = NothingPublished
  /\ clip_index = <<>>
  /\ clip_op = NoClipOp

AnIdle == AnStarted("analyze {input} -o {output}", DefaultMinConfidence)

\* What analyze_segment leaves alone.
anFrame == <<configVars, latestVars, supVars, silenceVars, serverVars, now, next_seg,
             gate_queue, analysis_queue, gate_paths, analysis_paths, disp,
             gate, workers, enq_count, run_count, stale_at_start, cap_event,
             birdnet_template, min_confidence, clip_op>>

storeFrame == <<detections, species_set, species_counts, log_revision,
                wall_clock, summary_cache, last_op, last_ret>>

\* build_payload(snapshot, status, status_message, predictions), with the
\* last-detection record and the log revision as they are when it runs.
analysis_payload(status, status_message, predictions, last, revision) ==
  [status |-> status, status_message |-> status_message,
   species |-> IF predictions = <<>> THEN "No detection"
               ELSE predictions[1].species,
   top_predictions |-> predictions, last_detection |-> last,
   log_revision |-> revision]

\* The error event of analyze_segment: logged unless the message repeats
\* analysis_last_error.
ErrorEvents(message) ==
  IF message # analysis_last_error
    THEN <<Event("error", message, <<>>, FALSE)>>
    ELSE <<>>

\* ---- analyze_segment, step by step
\* Entry.  Without a template the whole of analyze_segment is this step.
AnStart(w, p) ==
  /\ an[w].pc \in {"idle", "done"}
  /\ an[w].round < AnRounds
  /\ p \in DOMAIN files
  /\ IF birdnet_template = ""
       THEN /\ an' = [an EXCEPT ![w] =
                        [AnLocals("done", p, NoDir, FALSE, <<>>,
                                  TemplateNotSet, ErrorEvents(TemplateNotSet))
                           EXCEPT !.round = an[w].round + 1]]
            /\ analysis_last_error' = TemplateNotSet
            /\ published' = analysis_payload("idle", TemplateNotSet, <<>>,
                                             last_detection, log_revision)
            /\ files' = Unlink(files, p)
       ELSE /\ an' = [an EXCEPT ![w] =
                        [AnLocals("resolve", p, NoDir, FALSE, <<>>, NoError,
                                  <<Event("analysis", "Analyzing segment",
                                          <<>>, FALSE)>>)
                           EXCEPT !.round = an[w].round + 1]]
            /\ UNCHANGED <<analysis_last_error, published, files>>
  /\ UNCHANGED <<out_dirs, out_files, next_uuid, last_detection, clip_index>>
  /\ UNCHANGED <<storeFrame, anFrame>>

\* resolve_output_paths and build_birdnet_command: the run directory is made
\* first, then a template without {input} or {output} raises ValueError.
AnResolve(w) ==
  LET dir == run_dir_name(next_uuid, an[w].path)
  IN  /\ an[w].pc = "resolve"
      /\ out_dirs' = out_dirs \cup {dir}
      /\ next_uuid' = next_uuid + 1
      /\ an' = [an EXCEPT ![w].run_dir = dir,
                          ![w].pc = IF TemplateUsable(birdnet_template)
                                      THEN "run" ELSE "publish",
                          ![w].error = IF TemplateUsable(birdnet_template)
                                         THEN NoError ELSE TemplateMalformed]
      /\ UNCHANGED <<out_files, last_detection, analysis_last_error,
                     published, clip_index, files>>
      /\ UNCHANGED <<storeFrame, anFrame>>

\* subprocess.run and the tests after it, up to output_file.exists().
AnRun(w, outcome, rows) ==
  LET expected == OutputFile(an[w].run_dir, an[w].path)
  IN  /\ an[w].pc = "run"
      /\ CASE outcome = "csv" ->
                /\ out_files' = (expected :> rows) @@ out_files
                /\ an' = [an EXCEPT ![w].pc = "collect", ![w].csv = TRUE]
           [] outcome = "no_csv" ->
                /\ an' = [an EXCEPT ![w].pc = "publish"]
                /\ UNCHANGED out_files
           [] OTHER ->
                /\ an' = [an EXCEPT ![w].pc = "publish",
                            ![w].error =
                              CASE outcome = "not_found" -> CommandNotFound
                                [] outcome = "timeout" -> TimedOut
                                [] OTHER -> Failed]
                /\ UNCHANGED out_files
      /\ UNCHANGED <<out_dirs, next_uuid, last_detection, analysis_last_error,
                     published, clip_index, files>>
      /\ UNCHANGED <<storeFrame, anFrame>>

\* extract_predictions and the finally clause: the output file is unlinked
\* and the run directory removed, whether or not the file could be read.
AnCollect(w, readable) ==
  LET expected == OutputFile(an[w].run_dir, an[w].path)
  IN  /\ an[w].pc = "collect"
      /\ an' = [an EXCEPT
                  ![w].pc = "publish",
                  ![w].predictions =
                    IF readable /\ expected \in DOMAIN out_files
                      THEN extract_predictions(out_files[expected])
                      ELSE <<>>,
                  ![w].error =
                    IF readable /\ expected \in DOMAIN out_files
                      THEN NoError ELSE Unreadable]
      /\ out_files' = RemoveTree(RemoveFile(out_files, expected), an[w].run_dir)
      /\ out_dirs' = out_dirs \ {an[w].run_dir}
      /\ UNCHANGED <<next_uuid, last_detection, analysis_last_error,
                     published, clip_index, files>>
      /\ UNCHANGED <<storeFrame, anFrame>>

\* The dicts record_last_detection hands to append_log: one per prediction,
\* each with an id of its own and all with the one timestamp.
RECURSIVE DetectionEntries(_, _, _)
DetectionEntries(predictions, uuid, timestamp) ==
  IF predictions = <<>> THEN <<>>
  ELSE <<[id |-> "uuid_" \o ToString(uuid), timestamp |-> timestamp,
          species |-> Head(predictions).species,
          confidence |-> Head(predictions).confidence]>>
       \o DetectionEntries(Tail(predictions), uuid + 1, timestamp)

DetectedEvents(predictions) ==
  [i \in 1..Len(predictions) |->
     Event("detection", "Detected", <<predictions[i]>>, FALSE)]

\* The rest of analyze_segment with an error from run_birdnet.
AnPublishError(w) ==
  /\ an[w].pc = "publish"
  /\ an[w].error # NoError
  /\ an' = [an EXCEPT ![w].pc = "done",
                      ![w].emitted = @ \o ErrorEvents(an[w].error)]
  /\ analysis_last_error' = an[w].error
  /\ published' = analysis_payload("error", an[w].error, <<>>,
                                   last_detection, log_revision)
  /\ files' = Unlink(files, an[w].path)
  /\ UNCHANGED <<out_dirs, out_files, next_uuid, last_detection, clip_index>>
  /\ UNCHANGED <<storeFrame, anFrame>>

\* The rest of analyze_segment with predictions at or above min_confidence:
\* record_last_detection, update_best_clips, the below-threshold event,
\* write_latest and the unlink of the segment.
AnPublishDetected(w, copies) ==
  LET above == AboveOf(an[w].predictions, min_confidence)
      below == BelowOf(an[w].predictions, min_confidence)
      entries == DetectionEntries(above, next_uuid, wall_clock)
      last == [species |-> above[1].species, top_predictions |-> above,
               timestamp |-> wall_clock]
  IN  /\ an[w].pc = "publish"
      /\ an[w].error = NoError
      /\ above # <<>>
      /\ last_detection' = last
      /\ detections' = InsertAll(detections, RowsOfBatch(entries))
      /\ species_set' = update_species_set(species_set, entries)
      /\ species_counts' = update_species_counts(species_counts, entries)
      /\ log_revision' = bump_log_revision(log_revision, wall_clock)
      /\ summary_cache' = invalidate_summary_cache(summary_cache)
      /\ next_uuid' = next_uuid + Len(above)
      /\ clip_index' = IF an[w].path \in DOMAIN files
                         THEN update_best_clips(clip_index, an[w].path,
                                                SnrOf(an[w].path), above,
                                                copies)
                         ELSE update_best_clips(clip_index, an[w].path,
                                                NoSnr, above, {})
      /\ an' = [an EXCEPT
                  ![w].pc = "done",
                  ![w].emitted =
                    @ \o DetectedEvents(above)
                      \o (IF below # <<>>
                            THEN <<Event("detection", "Below threshold",
                                         below, TRUE)>>
                            ELSE <<>>)]
      /\ analysis_last_error' = NoError
      /\ published' = analysis_payload("listening", "Detected", above, last,
                                       log_revision')
      /\ files' = Unlink(files, an[w].path)
      /\ UNCHANGED <<out_dirs, out_files, wall_clock, last_op, last_ret>>
      /\ UNCHANGED anFrame

\* The rest of analyze_segment with no prediction at or above
\* min_confidence.
AnPublishNone(w) ==
  LET above == AboveOf(an[w].predictions, min_confidence)
      below == BelowOf(an[w].predictions, min_confidence)
  IN  /\ an[w].pc = "publish"
      /\ an[w].error = NoError
      /\ above = <<>>
      /\ an' = [an EXCEPT
                  ![w].pc = "done",
                  ![w].emitted =
                    @ \o <<Event("analysis", "No detections above",
                                 <<min_confidence>>, FALSE)>>
                      \o (IF below # <<>>
                            THEN <<Event("detection", "Below threshold",
                                         below, TRUE)>>
                            ELSE <<>>)]
      /\ analysis_last_error' = NoError
      /\ published' = analysis_payload("listening", "No detections", <<>>,
                                       last_detection, log_revision)
      /\ files' = Unlink(files, an[w].path)
      /\ UNCHANGED <<out_dirs, out_files, next_uuid, last_detection,
                     clip_index>>
      /\ UNCHANGED <<storeFrame, anFrame>>

AnInit ==
  \E template \in Templates, threshold \in MinConfidences :
    AnStarted(template, threshold)

AnSegmentFiles == [p \in 1..AnSegments |-> 0]

AnalyzeNext ==
  \/ \E w \in AnWorkerIds, p \in 1..AnSegments : AnStart(w, p)
  \/ \E w \in AnWorkerIds : AnResolve(w)
  \/ \E w \in AnWorkerIds, outcome \in RunOutcomes, rows \in CsvFiles :
       /\ (outcome # "csv" => rows = <<>>)
       /\ AnRun(w, outcome, rows)
  \/ \E w \in AnWorkerIds, readable \in BOOLEAN : AnCollect(w, readable)
  \/ \E w \in AnWorkerIds : AnPublishError(w)
  \/ \E w \in AnWorkerIds, copies \in {{}, {"Robin", "Wren", "Jay", "Owl"}} :
       AnPublishDetected(w, copies)
  \/ \E w \in AnWorkerIds : AnPublishNone(w)

\* ---- update_best_clips on its own
\* Entries a clip index on disk may hold for Robin.
ArchivedRobins ==
  {ClipEntry("Robin", Num(90), 5, 95, 0),
   ClipEntry("Robin", Num(50), 12, 62, 0)}

ClipsInit ==
  /\ clip_index \in {<<>>} \cup {("Robin" :> e) : e \in ArchivedRobins}
  /\ clip_op = NoClipOp

\* The above-threshold predictions handed to update_best_clips.
ClipPredictions ==
  {<<Prediction("Robin", Num(c))>> : c \in {50, 85, 88, 89, 90, 95}}
    \cup {<<Prediction("Robin", Num(89)), Prediction("Wren", Num(30))>>,
          <<Prediction("Robin", Num(60)), Prediction("Robin", Num(95))>>}

ClipSnrs == {NoSnr, 5, 30}

ClipCopies == {{}, {"Robin", "Wren"}}

\* update_best_clips(segment_path, predictions)
UpdateBestClips(segment, snr_db, predictions, copies) ==
  /\ clip_index' = update_best_clips(clip_index, segment, snr_db, predictions,
                                     copies)
  /\ clip_op' = [segment |-> segment, snr_db |-> snr_db,
                 predictions |-> predictions, copies |-> copies]
  /\ UNCHANGED <<birdnet_template, min_confidence, an, out_dirs, out_files,
                 next_uuid, last_detection, analysis_last_error, published>>
  /\ UNCHANGED <<storeVars, configVars, latestVars, pipeVars, supVars,
                 silenceVars, serverVars>>

ClipsNext ==
  \E segment \in 1..AnSegments, snr_db \in ClipSnrs,
     predictions \in ClipPredictions, copies \in ClipCopies :
    UpdateBestClips(segment, snr_db, predictions, copies)

(***************************************************************************)
(* Section 7.  Shutdown                                                    *)
(***************************************************************************)

StopSegs == 1         \* segments in the directory when the signal comes

\* shutdown(*_): stop_event.set(), on SIGINT or SIGTERM
SignalStop ==
  /\ ~stop_event
  /\ stop_event' = TRUE
  /\ UNCHANGED <<events, request, response, ops, clip_calls, ending>>
  /\ UNCHANGED <<storeVars, configVars, latestVars, pipeVars, silenceVars,
                 supVars, anVars>>

\* for path in files: if stop_event.is_set(): break -- and the loop test
\* that follows the break
DispBreak ==
  /\ disp.pc = "dispatch"
  /\ disp.i <= Len(disp.files)
  /\ stop_event
  /\ disp' = [disp EXCEPT !.pc = "exited"]
  /\ UNCHANGED <<now, files, next_seg, gate_queue, analysis_queue,
                 gate_paths, analysis_paths, gate, workers, enq_count,
                 run_count, stale_at_start, cap_event>>
  /\ UNCHANGED outsidePipe

\* gate_queue.get(timeout=0.5) raises queue.Empty: continue, and the loop
\* test finds stop_event set
GateStop ==
  /\ gate.pc = "get"
  /\ gate_queue = <<>>
  /\ stop_event
  /\ gate' = [gate EXCEPT !.pc = "exited"]
  /\ UNCHANGED <<now, files, next_seg, gate_queue, analysis_queue,
                 gate_paths, analysis_paths, disp, workers, enq_count,
                 run_count, stale_at_start, cap_event>>
  /\ UNCHANGED outsidePipe

\* analysis_queue.get(timeout=0.5) raises queue.Empty: continue, and the loop
\* test finds stop_event set
WorkerStop(w) ==
  /\ workers[w].pc = "get"
  /\ analysis_queue = <<>>
  /\ stop_event
  /\ workers' = [workers EXCEPT ![w].pc = "exited"]
  /\ UNCHANGED <<now, files, next_seg, gate_queue, analysis_queue,
                 gate_paths, analysis_paths, disp, gate, enq_count,
                 run_count, stale_at_start, cap_event>>
  /\ UNCHANGED outsidePipe

\* The capture child ends by itself, as often as capture_loop may start it
\* again within MaxChildren.
ChildEnds ==
  /\ next_pid + (IF restart_capture THEN 1 ELSE 0) < FirstChildPid + MaxChildren
  /\ ChildExits

\* The dispatcher with the limits of the program, on a directory below them.
StopDispatcher ==
  \/ DispScan(MAX_SEGMENT_AGE_SECONDS)
  \/ DispAge(MAX_SEGMENT_AGE_SECONDS)
  \/ DispSort(MAX_QUEUE_SEGMENTS)
  \/ DispDispatch
  \/ DispTickEnd
  \/ DispBreak

StopGate == GateWorker(SmallBacklog) \/ GateStop

StopWorker(w) == AnalysisWorker(w) \/ WorkerStop(w)

\* The server has run for a while.  Either ffmpeg is installed, a restart
\* may have been requested and the directory is empty, or ffmpeg is missing
\* and StopSegs segments of an earlier run are ready in the directory.
StopInit ==
  \E installed \in BOOLEAN :
    LET left == IF installed THEN 0 ELSE StopSegs
    IN  /\ now = ReadyAfter + 1
        /\ files = [p \in 1..left |-> 0]
        /\ next_seg = left + 1
        /\ gate_queue = <<>>
        /\ analysis_queue = <<>>
        /\ gate_paths = {}
        /\ analysis_paths = {}
        /\ disp = DispIdle
        /\ gate = GateIdle
        /\ workers = [w \in 1..SmallWorkers |-> WorkerIdle]
        /\ enq_count = [p \in 1..left |-> 0]
        /\ run_count = [p \in 1..left |-> 0]
        /\ stale_at_start = {}
        /\ cap_event = 0
        /\ SupStarted(installed, <<>>)
        /\ restart_capture \in (IF installed THEN BOOLEAN ELSE {FALSE})
        /\ config \in (IF installed THEN LoadedConfigs ELSE {DEFAULT_CONFIG})

StopNext ==
  \/ SignalStop
  \/ ChildEnds
  \/ Supervisor
  \/ StopDispatcher
  \/ StopGate
  \/ \E w \in 1..SmallWorkers : StopWorker(w)

(***************************************************************************)
(* Section 8.  Requests                                                    *)
(***************************************************************************)

MaxSegments == 3      \* segments of a request path

\* A path is the sequence of the pieces it is written with: "/" and the
\* pieces of names below, of which none is the beginning of another, so that
\* str.startswith and == on paths are prefix and equality of sequences.
Segments ==
  {<<>>, <<"api">>, <<"status">>, <<"status", "x">>, <<"weather">>,
   <<"settings">>, <<"settings", ".html">>, <<"settings", ".js">>,
   <<"settings", ".js", "on">>, <<"settings", ".css">>, <<"index", ".html">>,
   <<"app", ".js">>, <<"styles", ".css">>, <<"data">>, <<"icons">>,
   <<"overlay", ".db">>, <<"log">>, <<"x">>}

RECURSIVE PathsOfLength(_)
PathsOfLength(n) ==
  IF n = 0 THEN {<<>>}
  ELSE {p \o <<"/">> \o seg : p \in PathsOfLength(n - 1), seg \in Segments}

\* self.path.split("?", 1)[0] of the requests tried
RequestPaths == UNION {PathsOfLength(n) : n \in 1..MaxSegments}

\* "/a/b" as a path
Path(names) ==
  LET RECURSIVE Join(_)
      Join(k) == IF k = 0 THEN <<>>
                 ELSE Join(k - 1) \o <<"/">> \o names[k]
  IN  Join(Len(names))

\* path.startswith(prefix)
StartsWith(path, prefix) ==
  Len(path) >= Len(prefix) /\ SubSeq(path, 1, Len(prefix)) = prefix

\* NoCacheHandler._requires_auth
requires_auth(path) ==
  IF StartsWith(path, Path(<<<<"api">>, <<"status">>>>))
       \/ StartsWith(path, Path(<<<<"api">>, <<"weather">>, <<"settings">>>>))
    THEN FALSE
  ELSE IF StartsWith(path, Path(<<<<"weather">>, <<>>>>))
            \/ path \in {Path(<<<<"weather">>>>), Path(<<<<"weather">>, <<>>>>)}
    THEN FALSE
  ELSE IF StartsWith(path, Path(<<<<"data">>, <<"icons">>, <<>>>>))
    THEN FALSE
  ELSE IF path \in {Path(<<<<>>>>), Path(<<<<"index", ".html">>>>),
                    Path(<<<<"app", ".js">>>>), Path(<<<<"styles", ".css">>>>)}
    THEN FALSE
  ELSE IF path \in {Path(<<<<"settings">>>>), Path(<<<<"settings">>, <<>>>>),
                    Path(<<<<"settings", ".html">>>>),
                    Path(<<<<"settings", ".js">>>>),
                    Path(<<<<"settings", ".css">>>>)}
    THEN TRUE
  ELSE IF StartsWith(path, Path(<<<<"api">>, <<>>>>))
    THEN TRUE
  ELSE FALSE

\* NoCacheHandler._auth_settings: enabled needs the flag and a stored hash
auth_enabled(flag, password_hash) == flag /\ password_hash # ""

\* NoCacheHandler._is_authorized, for an Authorization header that is
\* absent, not Basic, Basic with the wrong user or password, or Basic with
\* the stored user and a password that matches the stored hash
Authorizations == {"absent", "not basic", "wrong", "valid"}

is_authorized(enabled, authorization) ==
  IF ~enabled THEN TRUE ELSE authorization = "valid"

\* NoCacheHandler._require_auth, and a request that goes on to its route
Denied == [code |-> 401, www_authenticate |-> TRUE]

Routed == [code |-> 0, www_authenticate |-> FALSE]

Requests ==
  [method : {"GET", "POST"}, path : RequestPaths,
   auth_flag : BOOLEAN, password_hash : {"", "pbkdf2_sha256"},
   authorization : Authorizations]

\* do_GET and do_POST up to the route
Authenticate ==
  /\ response = NoRequest
  /\ response' =
       IF requires_auth(request.path)
            /\ ~is_authorized(auth_enabled(request.auth_flag,
                                           request.password_hash),
                              request.authorization)
         THEN Denied ELSE Routed
  /\ UNCHANGED <<stop_event, events, request, ops, clip_calls, ending>>
  /\ UNCHANGED <<storeVars, configVars, latestVars, pipeVars, silenceVars,
                 supVars, anVars>>

(***************************************************************************)
(* Section 9.  Reading the log and the events                              *)
(***************************************************************************)

ReadRows == 3         \* rows of the table a read finds

\* read_events(limit) with limit None written as -1; the ids of events are
\* uuids, which event_id keeps.
read_events(table, limit) ==
  IF limit # -1 /\ limit <= 0 THEN <<>>
  ELSE LET ordered == OrderDesc(table)
           rows == IF limit = -1 \/ limit >= Len(ordered) THEN ordered
                   ELSE SubSeq(ordered, 1, limit)
       IN  OldestFirst(rows)

\* ---- int(text), on the characters of the text
DigitOf(c) ==
  CASE c = "0" -> 0 [] c = "1" -> 1 [] c = "2" -> 2 [] c = "3" -> 3
    [] c = "4" -> 4 [] c = "5" -> 5 [] c = "6" -> 6 [] c = "7" -> 7
    [] c = "8" -> 8 [] c = "9" -> 9 [] OTHER -> -1

RECURSIVE LStrip(_)
LStrip(chars) ==
  IF chars # <<>> /\ Head(chars) = " " THEN LStrip(Tail(chars)) ELSE chars

Strip(chars) == Reverse(LStrip(Reverse(LStrip(chars))))

RECURSIVE DigitsValue(_, _)
DigitsValue(chars, acc) ==
  IF chars = <<>> THEN acc
  ELSE DigitsValue(Tail(chars), 10 * acc + DigitOf(Head(chars)))

\* int(text): {} stands for ValueError
int_of_text(text) ==
  LET t == Strip(text)
      signed == t # <<>> /\ Head(t) \in {"+", "-"}
      digits == IF signed THEN Tail(t) ELSE t
  IN  IF digits = <<>> \/ \E k \in 1..Len(digits) : DigitOf(digits[k]) < 0
        THEN {}
        ELSE {IF signed /\ Head(t) = "-" THEN -DigitsValue(digits, 0)
              ELSE DigitsValue(digits, 0)}

\* The limit parameter of a request: its text, and for the claims the
\* integer Python's int() makes of it (NotAnInt when it raises).
NotAnInt == -1000000

NoParam == <<"absent">>

LimitText(text, means) == [text |-> text, means |-> means]

LimitParams ==
  {LimitText(NoParam, NotAnInt), LimitText(<<>>, NotAnInt),
   LimitText(<<"5">>, 5), LimitText(<<"2">>, 2), LimitText(<<"0">>, 0),
   LimitText(<<"-", "5">>, -5), LimitText(<<"1", "0", "0", "0">>, 1000),
   LimitText(<<"1", "0", "0", "1">>, 1001), LimitText(<<"a", "b", "c">>, NotAnInt),
   LimitText(<<"2", ".", "0">>, NotAnInt), LimitText(<<" ", "3">>, 3),
   LimitText(<<"1", "e", "3">>, NotAnInt), LimitText(<<"+", "1">>, 1),
   LimitText(<<"-">>, NotAnInt), LimitText(<<"-", " ", "1">>, NotAnInt)}

\* limit = max(0, min(1000, limit))
clamp_limit(limit) ==
  LET low == IF limit < 1000 THEN limit ELSE 1000
  IN  IF low > 0 THEN low ELSE 0

\* do_GET: query.get("limit", ["200"])[0] (parse_qs leaves a blank value
\* out), int() of it or 200 on ValueError, then the clamp
query_limit(text) ==
  LET value == IF text = NoParam \/ text = <<>> THEN <<"2", "0", "0">> ELSE text
      parsed == int_of_text(value)
      limit == IF parsed = {} THEN 200 ELSE CHOOSE n \in parsed : TRUE
  IN  clamp_limit(limit)

\* ---- the tables read
EventRow(id, timestamp) ==
  [id |-> ToString(id), timestamp |-> timestamp, type |-> "server",
   message |-> "Listening"]

\* The detections tables append_log builds from entries without an id.
ReadTables ==
  {InsertAll(<<>>, RowsOfBatch(b)) :
     b \in UNION {[1..n -> {e \in Entries : e.id = NoKey}] : n \in 0..ReadRows}}

\* The events tables log_event builds, whatever the clock does meanwhile.
ReadEventTables ==
  UNION {{[k \in 1..n |-> EventRow(k, ts[k])] : ts \in [1..n -> Timestamps]} :
           n \in 0..ReadRows}

ReadInit ==
  /\ detections \in ReadTables
  /\ species_set = rebuild_species_set(detections)
  /\ species_counts = rebuild_species_counts(detections)
  /\ wall_clock = 0
  /\ log_revision = 0
  /\ summary_cache = {}
  /\ last_op = "start"
  /\ last_ret = {}
  /\ stop_event = FALSE
  /\ events \in ReadEventTables
  /\ request = NoRequest
  /\ response = NoRequest
  /\ ops = NoOps
  /\ clip_calls = NoClipCalls
  /\ ending = NoEnding

readFrame == <<storeVars, configVars, latestVars, pipeVars, silenceVars,
               supVars, anVars, stop_event, events, ops, clip_calls, ending>>

\* GET /api/log?limit=...
GetLog(param) ==
  /\ request' = [method |-> "GET", route |-> "/api/log", limit |-> param]
  /\ response' = [code |-> 200, limit |-> query_limit(param.text),
                  entries |-> read_log(detections, query_limit(param.text))]
  /\ UNCHANGED readFrame

\* GET /api/events?limit=...
GetEvents(param) ==
  /\ request' = [method |-> "GET", route |-> "/api/events", limit |-> param]
  /\ response' = [code |-> 200, limit |-> query_limit(param.text),
                  entries |-> read_events(events, query_limit(param.text))]
  /\ UNCHANGED readFrame

\* The limits the program itself calls the readers with (None is -1).
CallLimits == {-1, 0, -2, 1, 200}

\* read_log(limit), called by the program
CallReadLog(limit) ==
  /\ request' = [method |-> "call", route |-> "read_log", limit |-> limit]
  /\ response' = [code |-> 0, limit |-> limit,
                  entries |-> read_log(detections, limit)]
  /\ UNCHANGED readFrame

\* read_events(limit), called by the program
CallReadEvents(limit) ==
  /\ request' = [method |-> "call", route |-> "read_events", limit |-> limit]
  /\ response' = [code |-> 0, limit |-> limit,
                  entries |-> read_events(events, limit)]
  /\ UNCHANGED readFrame

ReadNext ==
  \/ \E param \in LimitParams : GetLog(param)
  \/ \E param \in LimitParams : GetEvents(param)
  \/ \E limit \in CallLimits : CallReadLog(limit)
  \/ \E limit \in CallLimits : CallReadEvents(limit)

(***************************************************************************)
(* Section 10.  Manual entries                                             *)
(***************************************************************************)

\* data.get(key, "") of a key the body does not have
Missing == Str("")

\* text.strip() of the texts the model submits
StripText(t) ==
  CASE t = "  " -> "" [] t = " Wren " -> "Wren" [] OTHER -> t

\* Mutant of species_text: the text is not stripped.
species_text_unstripped(value) == (CHOOSE t \in PyStr(value) : TRUE).s

\* str(data.get("species", "")).strip()
species_text(value) == StripText((CHOOSE t \in PyStr(value) : TRUE).s)

\* normalize_timestamp(value): a text that parses is kept (as UTC), anything
\* else becomes now_iso()
normalize_timestamp(value, now_iso) ==
  IF value.kind = "num" /\ value.n \in Timestamps THEN value.n ELSE now_iso

\* What /api/log/add is sent: species and timestamp of the JSON body.
ManualSpecies == {Missing, Str("  "), Str("Robin"), Str(" Wren "), Null}

ManualTimestamps == {Null, Str("yesterday"), Num(1), Num(2)}

ManualBodies == [species : ManualSpecies, timestamp : ManualTimestamps]

\* The event log_event("manual", ...) stores.
ManualEvent(id, timestamp, species) ==
  [id |-> ToString(id), timestamp |-> timestamp, type |-> "manual",
   message |-> "Manual entry " \o species]

\* POST /api/log/add: add_manual_log_entry(data, config) and the answer;
\* now_iso is what the clock gives normalize_timestamp and log_event.
AddManualLogEntry(data, now_iso) ==
  LET species == species_text(data.species)
      entry == [id |-> ToString(next_uuid),
                timestamp |-> normalize_timestamp(data.timestamp, now_iso),
                species |-> species]
  IN  /\ request' = [method |-> "POST", route |-> "/api/log/add", data |-> data]
      /\ last_op' = "add_manual_log_entry"
      /\ last_ret' = {}
      /\ IF species = ""
           THEN /\ response' = [code |-> 400, ok |-> FALSE,
                                error |-> "Species is required"]
                /\ UNCHANGED <<detections, species_set, species_counts,
                               log_revision, summary_cache, events, next_uuid>>
           ELSE /\ log_revision < MaxRev
                /\ Len(detections) < MaxRows
                /\ detections' = InsertAll(detections, RowsOfBatch(<<entry>>))
                /\ species_set' = update_species_set(species_set, <<entry>>)
                /\ species_counts' = update_species_counts(species_counts, <<entry>>)
                /\ log_revision' = bump_log_revision(log_revision, wall_clock)
                /\ summary_cache' = invalidate_summary_cache(summary_cache)
                /\ events' = Append(events,
                                    ManualEvent(next_uuid + 1, now_iso, species))
                /\ next_uuid' = next_uuid + 2
                /\ response' = [code |-> 200, ok |-> TRUE, error |-> ""]
      /\ UNCHANGED <<wall_clock, stop_event, ops, clip_calls, ending>>
      /\ UNCHANGED <<birdnet_template, min_confidence, an, out_dirs, out_files,
                     last_detection, analysis_last_error, published,
                     clip_index, clip_op>>
      /\ UNCHANGED <<configVars, latestVars, pipeVars, silenceVars, supVars>>

ManualNext ==
  \/ \E data \in ManualBodies, now_iso \in Timestamps :
       AddManualLogEntry(data, now_iso)
  \/ \E k \in {entry_id(e) : e \in Entries} \cup {""} : DeleteLogEntry(k)
  \/ SummarizeLog
  \/ ClockMoves

(***************************************************************************)
(* Section 11.  Store operations, step by step                             *)
(*                                                                         *)
(* record_last_detection with append_log and the end of analyze_segment,   *)
(* delete_log_entry and summarize_log as the threads run them: every       *)
(* statement that reads or writes the detections table, the aggregates,    *)
(* the log revision or the summary cache is a step of its own, and the     *)
(* steps of different threads interleave.  Each global is guarded by a     *)
(* lock of its own that is held for one statement only; log_lock is held   *)
(* for the INSERT and for the DELETE alone.                                *)
(***************************************************************************)
MaxOps == 1        \* operations one request handler runs
MaxAnalyses == 1   \* above-threshold results the classifier worker handles

\* The predictions at or above min_confidence of one result.
Heard(species) == [species |-> species, confidence |-> 90]

AboveResults == {<<Heard("Robin")>>, <<Heard("Robin"), Heard("Wren")>>}

\* The store when the threads start: the table as the last run left it, the
\* aggregates rebuilt from it, and no summary row or the one of that table.
OpsInit ==
  /\ detections \in PersistedTables
  /\ species_set = rebuild_species_set(detections)
  /\ species_counts = rebuild_species_counts(detections)
  /\ wall_clock = 1
  /\ log_revision = wall_clock
  /\ summary_cache \in
       {{}, {[cache_key |-> CacheKey, log_revision |-> log_revision,
              payload |-> SummaryPayload(detections, log_revision)]}}
  /\ last_op = "start"
  /\ last_ret = {}

\* The payload summarize_log builds from the entries it read.
SummaryOf(entries, rev) ==
  [counts |-> ScanCounts(entries),
   species_count |-> Cardinality(ScanSet(entries)),
   total_detections |-> Len(entries),
   log_revision |-> rev]

\* Thread t moves on to `pc`, having done the step `name`.
Stepped(t, pc, name) ==
  [ops[t] EXCEPT !.pc = pc, !.done = Append(@, name)]

\* The operation of thread t has returned.
Returned11(t, name, ret) ==
  [ops[t] EXCEPT !.pc = "idle", !.done = Append(@, name), !.ret = ret,
                 !.round = @ + 1]

opsFrame == <<configVars, latestVars, pipeVars, supVars, silenceVars,
              stop_event, request, response, last_op, last_ret, wall_clock,
              clip_calls, ending>>

anRest == <<birdnet_template, min_confidence, an, out_dirs, out_files,
            analysis_last_error, clip_index, clip_op>>

\* ---- record_last_detection(above, snapshot), called by analyze_segment
\* Entry: last_detection is set and the entries get their ids.
RecStart(above) ==
  /\ ops["worker"].pc = "idle"
  /\ ops["worker"].round < MaxAnalyses
  /\ ops' = [ops EXCEPT !["worker"] =
               [OpIdle EXCEPT !.op = "analyze", !.pc = "event",
                              !.entries = DetectionEntries(above, next_uuid, 2),
                              !.round = ops["worker"].round]]
  /\ last_detection' = [species |-> above[1].species,
                        top_predictions |-> above, timestamp |-> 2]
  /\ next_uuid' = next_uuid + Len(above)
  /\ UNCHANGED <<detections, species_set, species_counts, log_revision,
                 summary_cache, events, published>>
  /\ UNCHANGED <<opsFrame, anRest>>

\* log_event("detection", ...) in the loop over the predictions: one event
\* for each, stored while the entries are still being collected.
RecEvent ==
  LET o == ops["worker"]
      k == Cardinality({i \in 1..Len(o.done) : o.done[i] = "event"}) + 1
  IN  /\ o.pc = "event"
      /\ events' = Append(events,
                          Event("detection", "Detected",
                                <<Heard(o.entries[k].species)>>, FALSE))
      /\ ops' = [ops EXCEPT !["worker"] =
                   Stepped("worker",
                           IF k = Len(o.entries) THEN "insert" ELSE "event",
                           "event")]
      /\ UNCHANGED <<detections, species_set, species_counts, log_revision,
                     summary_cache, last_detection, next_uuid, published>>
      /\ UNCHANGED <<opsFrame, anRest>>

\* ---- append_log(entries)
\* executemany(INSERT OR REPLACE ...) and commit, under log_lock
ApInsert ==
  /\ ops["worker"].pc = "insert"
  /\ detections' = InsertAll(detections, RowsOfBatch(ops["worker"].entries))
  /\ ops' = [ops EXCEPT !["worker"] = Stepped("worker", "set", "rows")]
  /\ UNCHANGED <<species_set, species_counts, log_revision, summary_cache,
                 events, last_detection, next_uuid, published>>
  /\ UNCHANGED <<opsFrame, anRest>>

\* update_species_set(entries), under species_lock
ApSet ==
  /\ ops["worker"].pc = "set"
  /\ species_set' = update_species_set(species_set, ops["worker"].entries)
  /\ ops' = [ops EXCEPT !["worker"] = Stepped("worker", "counts", "aggregates")]
  /\ UNCHANGED <<detections, species_counts, log_revision, summary_cache,
                 events, last_detection, next_uuid, published>>
  /\ UNCHANGED <<opsFrame, anRest>>

\* update_species_counts(entries), under species_count_lock
ApCounts ==
  /\ ops["worker"].pc = "counts"
  /\ species_counts' =
       update_species_counts(species_counts, ops["worker"].entries)
  /\ ops' = [ops EXCEPT !["worker"] = Stepped("worker", "bump", "aggregates")]
  /\ UNCHANGED <<detections, species_set, log_revision, summary_cache,
                 events, last_detection, next_uuid, published>>
  /\ UNCHANGED <<opsFrame, anRest>>

\* bump_log_revision(), in append_log and in delete_log_entry
OpBump(t) ==
  /\ ops[t].pc = "bump"
  /\ log_revision' = bump_log_revision(log_revision, wall_clock)
  /\ ops' = [ops EXCEPT ![t] =
               [Stepped(t, "invalidate", "bump") EXCEPT !.rev = log_revision']]
  /\ UNCHANGED <<detections, species_set, species_counts, summary_cache,
                 events, last_detection, next_uuid, published>>
  /\ UNCHANGED <<opsFrame, anRest>>

\* invalidate_summary_cache(), the last statement of append_log and of
\* delete_log_entry
OpInvalidate(t) ==
  /\ ops[t].pc = "invalidate"
  /\ summary_cache' = invalidate_summary_cache(summary_cache)
  /\ ops' = [ops EXCEPT ![t] =
               IF ops[t].op = "analyze" THEN Stepped(t, "clips", "invalidate")
               ELSE Returned11(t, "invalidate", "removed")]
  /\ UNCHANGED <<detections, species_set, species_counts, log_revision,
                 events, last_detection, next_uuid, published>>
  /\ UNCHANGED <<opsFrame, anRest>>

\* ---- the rest of analyze_segment
\* update_best_clips(path, above): when it has stored a clip, save_clip_index
\* ends with invalidate_summary_cache().
RecClips(saved) ==
  /\ ops["worker"].pc = "clips"
  /\ summary_cache' = IF saved THEN invalidate_summary_cache(summary_cache)
                      ELSE summary_cache
  /\ ops' = [ops EXCEPT !["worker"] = Stepped("worker", "build", "clips")]
  /\ UNCHANGED <<detections, species_set, species_counts, log_revision,
                 events, last_detection, next_uuid, published>>
  /\ UNCHANGED <<opsFrame, anRest>>

\* build_payload(...), which calls get_log_revision(), then the
\* below-threshold event when the result had predictions under
\* min_confidence as well; the payload is kept in `published` from here on
\* and handed to write_latest by the next step.
RecBuild(below) ==
  LET o == ops["worker"]
      above == [i \in 1..Len(o.entries) |-> Heard(o.entries[i].species)]
  IN  /\ o.pc = "build"
      /\ published' = analysis_payload("listening", "Detected", above,
                                       last_detection, log_revision)
      /\ events' = IF below
                     THEN Append(events,
                                 Event("detection", "Below threshold",
                                       <<>>, TRUE))
                     ELSE events
      /\ ops' = [ops EXCEPT !["worker"] = Stepped("worker", "write", "build")]
      /\ UNCHANGED <<detections, species_set, species_counts, log_revision,
                     summary_cache, last_detection, next_uuid>>
      /\ UNCHANGED <<opsFrame, anRest>>

\* write_latest(payload)
RecWrite ==
  /\ ops["worker"].pc = "write"
  /\ ops' = [ops EXCEPT !["worker"] = Returned11("worker", "write", "written")]
  /\ UNCHANGED <<detections, species_set, species_counts, log_revision,
                 summary_cache, events, last_detection, next_uuid, published>>
  /\ UNCHANGED <<opsFrame, anRest>>

\* ---- delete_log_entry(entry_key)
\* DELETE FROM detections WHERE id = ? and commit, under log_lock; the
\* operation returns here when the key is empty or no row went.
DelDelete(t, entry_key) ==
  LET removed == entry_key # "" /\ rowcount(detections, entry_key) > 0
  IN  /\ t # "worker"
      /\ ops[t].pc = "idle"
      /\ ops[t].round < MaxOps
      /\ detections' = IF removed
                         THEN SelectSeq(detections, LAMBDA r : r.id # entry_key)
                         ELSE detections
      /\ ops' = [ops EXCEPT ![t] =
                   IF removed
                     THEN [OpIdle EXCEPT !.op = "delete", !.pc = "scan_set",
                                         !.done = <<"delete">>,
                                         !.round = ops[t].round]
                     ELSE [OpIdle EXCEPT !.op = "delete", !.ret = "kept",
                                         !.done = <<"delete">>,
                                         !.round = ops[t].round + 1]]
      /\ UNCHANGED <<species_set, species_counts, log_revision, summary_cache,
                     events, last_detection, next_uuid, published>>
      /\ UNCHANGED <<opsFrame, anRest>>

\* entries = read_log(None), in rebuild_species_set, rebuild_species_counts
\* and summarize_log
OpScan(t) ==
  /\ ops[t].pc \in {"scan_set", "scan_counts", "read"}
  /\ LET entries == read_log(detections, -1)
         pc == CASE ops[t].pc = "scan_set" -> "store_set"
                 [] ops[t].pc = "scan_counts" -> "store_counts"
                 [] entries = <<>> -> "stamp"
                 [] OTHER -> "store_counts"
     IN  ops' = [ops EXCEPT ![t] =
                   [Stepped(t, pc, "scan") EXCEPT !.scan = entries]]
  /\ UNCHANGED <<detections, species_set, species_counts, log_revision,
                 summary_cache, events, last_detection, next_uuid, published>>
  /\ UNCHANGED <<opsFrame, anRest>>

\* `species_set = species` under species_lock: rebuild_species_set (then
\* rebuild_species_counts follows) and summarize_log (then the payload).
OpStoreSet(t) ==
  /\ ops[t].pc = "store_set"
  /\ species_set' = ScanSet(ops[t].scan)
  /\ ops' = [ops EXCEPT ![t] =
               Stepped(t, IF ops[t].op = "delete" THEN "scan_counts"
                          ELSE "stamp", "store_set")]
  /\ UNCHANGED <<detections, species_counts, log_revision, summary_cache,
                 events, last_detection, next_uuid, published>>
  /\ UNCHANGED <<opsFrame, anRest>>

\* `species_counts = counts` under species_count_lock:
\* rebuild_species_counts (then the bump follows) and summarize_log (then
\* the species set).
OpStoreCounts(t) ==
  /\ ops[t].pc = "store_counts"
  /\ species_counts' = ScanCounts(ops[t].scan)
  /\ ops' = [ops EXCEPT ![t] =
               Stepped(t, IF ops[t].op = "delete" THEN "bump"
                          ELSE "store_set", "store_counts")]
  /\ UNCHANGED <<detections, species_set, log_revision, summary_cache,
                 events, last_detection, next_uuid, published>>
  /\ UNCHANGED <<opsFrame, anRest>>

\* ---- summarize_log()
\* get_cached_summary(): current_revision = get_log_revision()
SumRevision(t) ==
  /\ t # "worker"
  /\ ops[t].pc = "idle"
  /\ ops[t].round < MaxOps
  /\ ops' = [ops EXCEPT ![t] =
               [OpIdle EXCEPT !.op = "summarize", !.pc = "query",
                              !.rev = log_revision, !.done = <<"revision">>,
                              !.round = ops[t].round]]
  /\ UNCHANGED <<detections, species_set, species_counts, log_revision,
                 summary_cache, events, last_detection, next_uuid, published>>
  /\ UNCHANGED <<opsFrame, anRest>>

\* get_cached_summary(): the SELECT with that revision; a row found is
\* what summarize_log returns.
SumQuery(t) ==
  LET cached == get_cached_summary(summary_cache, ops[t].rev)
  IN  /\ ops[t].pc = "query"
      /\ ops' = [ops EXCEPT ![t] =
                   IF cached # {}
                     THEN [Returned11(t, "query", "hit") EXCEPT
                             !.payload = CHOOSE p \in cached : TRUE]
                     ELSE Stepped(t, "read", "query")]
      /\ UNCHANGED <<detections, species_set, species_counts, log_revision,
                     summary_cache, events, last_detection, next_uuid,
                     published>>
      /\ UNCHANGED <<opsFrame, anRest>>

\* payload = {..., "log_revision": get_log_revision()}
SumStamp(t) ==
  /\ ops[t].pc = "stamp"
  /\ ops' = [ops EXCEPT ![t] =
               [Stepped(t, "store", "stamp") EXCEPT
                  !.payload = SummaryOf(ops[t].scan, log_revision)]]
  /\ UNCHANGED <<detections, species_set, species_counts, log_revision,
                 summary_cache, events, last_detection, next_uuid, published>>
  /\ UNCHANGED <<opsFrame, anRest>>

\* set_cached_summary(payload): the row is stamped with get_log_revision()
\* as it is now.
SumStore(t) ==
  /\ ops[t].pc = "store"
  /\ summary_cache' =
       set_cached_summary(summary_cache, log_revision, ops[t].payload)
  /\ ops' = [ops EXCEPT ![t] = Returned11(t, "store", "miss")]
  /\ UNCHANGED <<detections, species_set, species_counts, log_revision,
                 events, last_detection, next_uuid, published>>
  /\ UNCHANGED <<opsFrame, anRest>>

ClassifierWorker ==
  \/ \E above \in AboveResults : RecStart(above)
  \/ RecEvent
  \/ ApInsert
  \/ ApSet
  \/ ApCounts
  \/ \E saved \in BOOLEAN : RecClips(saved)
  \/ \E below \in BOOLEAN : RecBuild(below)
  \/ RecWrite

OpsNext ==
  \/ ClassifierWorker
  \/ \E t \in OpThreads :
       \/ OpBump(t)
       \/ OpInvalidate(t)
       \/ \E k \in {"a", "uuid_1"} : DelDelete(t, k)
       \/ OpScan(t)
       \/ OpStoreSet(t)
       \/ OpStoreCounts(t)
       \/ SumRevision(t)
       \/ SumQuery(t)
       \/ SumStamp(t)
       \/ SumStore(t)

(***************************************************************************)
(* Section 12.  The log revision in the latest snapshot                    *)
(*                                                                         *)
(* The writers of latest.json with the log_revision their payload carries: *)
(* build_payload and refresh_last_detection call get_log_revision() when   *)
(* they build the payload, write_latest takes write_lock afterwards.       *)
(***************************************************************************)
\* payload["log_revision"] = get_log_revision()
WithRevision(payload, rev) ==
  [k \in DOMAIN payload \cup {"log_revision"} |->
     IF k = "log_revision" THEN rev ELSE payload[k]]

\* The process after main() has run ensure_latest_file and started its
\* threads: latest.json holds the idle payload.
RevStarted ==
  /\ fs = [f \in Paths |->
             IF f = LATEST_PATH
               THEN WithRevision(Stamped(build_payload("idle")), log_revision)
               ELSE Absent]
  /\ write_lock = ""
  /\ lpc = [t \in Threads |-> IF t = "main" THEN "done" ELSE "idle"]
  /\ lpayload = [t \in Threads |-> NoPayload]
  /\ lafter = [t \in Threads |-> "idle"]
  /\ observed = {}

\* capture_loop and analyze_segment: payload = build_payload(...), which
\* reads the revision; write_latest(payload) follows.
PublishRevision(t, status) ==
  /\ t \in {"capture", "worker"}
  /\ lpc[t] = "idle"
  /\ lpayload' = [lpayload EXCEPT ![t] =
                    WithRevision(build_payload(status), log_revision)]
  /\ lpc' = [lpc EXCEPT ![t] = "wl_lock"]
  /\ lafter' = [lafter EXCEPT ![t] = "idle"]
  /\ UNCHANGED <<fs, write_lock, observed>>
  /\ UNCHANGED outsideLatest

\* refresh_last_detection in a request handler: latest.json is read and the
\* four keys are set, log_revision to get_log_revision().
RefreshRevision ==
  /\ lpc["http"] = "rf_read"
  /\ lpayload' = [lpayload EXCEPT !["http"] =
                    WithRevision(RefreshedPayload(fs), log_revision)]
  /\ lpc' = [lpc EXCEPT !["http"] = "wl_lock"]
  /\ lafter' = [lafter EXCEPT !["http"] = "idle"]
  /\ UNCHANGED <<fs, write_lock, observed>>
  /\ UNCHANGED outsideLatest

RevWriters == {"capture", "worker", "http"}

RevNext ==
  \/ \E t \in {"capture", "worker"} : \E st \in StatusesOf(t) :
       PublishRevision(t, st)
  \/ HandlerRefresh
  \/ RefreshRevision
  \/ \E t \in RevWriters : WriteLatestLock(t)
  \/ \E t \in RevWriters : WriteLatestOpen(t)
  \/ \E t \in RevWriters : WriteLatestText(t)
  \/ \E t \in RevWriters : WriteLatestReplace(t)
  \/ BumpLogRevision

(***************************************************************************)
(* Section 13.  update_best_clips in concurrent classifier workers         *)
(*                                                                         *)
(* update_best_clips reads clips/index.json into a local dict, changes the *)
(* dict in its loop and writes the whole dict back; no lock is held.       *)
(***************************************************************************)
ClipRounds == 1     \* calls of update_best_clips one worker makes

\* The above-threshold predictions of the segments the workers classify.
RacePredictions ==
  {<<Prediction("Robin", Num(95))>>, <<Prediction("Robin", Num(60))>>,
   <<Prediction("Wren", Num(30))>>,
   <<Prediction("Robin", Num(60)), Prediction("Wren", Num(30))>>}

clipFrame == <<storeVars, configVars, latestVars, pipeVars, supVars,
               silenceVars, anVars, stop_event, events, request, response,
               ops, ending>>

\* index = load_clip_index(); worker w classifies segment w.
ClipLoad(w, predictions) ==
  /\ clip_calls[w].pc = "idle"
  /\ clip_calls[w].round < ClipRounds
  /\ clip_calls' = [clip_calls EXCEPT ![w] =
                      [ClipCallIdle EXCEPT !.pc = "loop", !.index = clip_index,
                                           !.segment = w,
                                           !.predictions = predictions,
                                           !.round = clip_calls[w].round]]
  /\ UNCHANGED clipFrame

\* One pass of `for prediction in predictions`, on the local dict; `copied`
\* says whether shutil.copy2 succeeds.
ClipPass(w, copied) ==
  LET c == clip_calls[w]
      prediction == Head(c.predictions)
      index == BestClipStep(c.index, c.segment, SnrOf(c.segment), prediction,
                            IF copied THEN {prediction.species} ELSE {})
  IN  /\ c.pc = "loop"
      /\ c.predictions # <<>>
      /\ clip_calls' = [clip_calls EXCEPT ![w] =
                          [c EXCEPT !.index = index,
                                    !.predictions = Tail(c.predictions),
                                    !.updated = c.updated \/ index # c.index,
                                    !.archived =
                                      IF index # c.index
                                        THEN c.archived \cup {prediction.species}
                                        ELSE c.archived]]
      /\ UNCHANGED clipFrame

\* `if updated: save_clip_index(index)`: the local dict replaces the file,
\* and invalidate_summary_cache() follows.
ClipSave(w) ==
  LET c == clip_calls[w]
  IN  /\ c.pc = "loop"
      /\ c.predictions = <<>>
      /\ clip_index' = IF c.updated THEN c.index ELSE clip_index
      /\ summary_cache' = IF c.updated
                            THEN invalidate_summary_cache(summary_cache)
                            ELSE summary_cache
      /\ clip_calls' = [clip_calls EXCEPT ![w] =
                          [c EXCEPT !.pc = "idle", !.round = c.round + 1]]
      /\ UNCHANGED <<detections, species_set, species_counts, log_revision,
                     wall_clock, last_op, last_ret>>
      /\ UNCHANGED <<configVars, latestVars, pipeVars, supVars, silenceVars,
                     stop_event, events, request, response, ops, ending>>
      /\ UNCHANGED <<birdnet_template, min_confidence, an, out_dirs, out_files,
                     next_uuid, last_detection, analysis_last_error, published,
                     clip_op>>

ClipRaceNext ==
  \E w \in ClipWorkers :
    \/ \E predictions \in RacePredictions : ClipLoad(w, predictions)
    \/ \E copied \in BOOLEAN : ClipPass(w, copied)
    \/ ClipSave(w)

(***************************************************************************)
(* Section 14.  The end of a capture child                                 *)
(*                                                                         *)
(* capture_loop from subprocess.Popen to the next round: the inner loop,   *)
(* the signals sent to the child, the waits of up to 2 s and the clearing  *)
(* of current_capture_pid.  The child is "running", "exited" (ended but    *)
(* not yet collected by poll() or wait(), so its pid still exists) or      *)
(* "reaped".  ending.log lists, for the current child: the signals sent    *)
(* to its pid, "died" when it ends, "timeout" for a wait of 2 s that       *)
(* expired, "waited" for a wait that returned, and "clear".                *)
(***************************************************************************)
EndChildren == 2    \* children capture_loop launches

endFrame == <<storeVars, latestVars, pipeVars, silenceVars, anVars,
              events, request, response, ops, clip_calls,
              config, settings_file, cfg_op, cfg_updates, cfg_changed,
              cfg_signalled, req, ffmpeg_installed, sup, procs, next_pid, wd,
              sup_status, sup_event, sig_log>>

Logged(names) == [ending EXCEPT !.log = @ \o names]

\* process.poll(): collects a child that has ended.
Polled(e) == IF e.child = "exited" THEN [e EXCEPT !.child = "reaped"] ELSE e

\* process.terminate(): Popen.send_signal polls first and sends SIGTERM only
\* to a child that has not ended.
Terminated(e) ==
  IF e.child = "running" THEN [e EXCEPT !.log = Append(@, "TERM")]
  ELSE Polled(e)

\* process = subprocess.Popen(command); set_current_capture_pid(process.pid)
EndLaunch ==
  /\ ending.pc = "none"
  /\ ~stop_event
  /\ ending.round < EndChildren
  /\ ending' = [pc |-> "loop", why |-> "", child |-> "running", log |-> <<>>,
                round |-> ending.round + 1]
  /\ current_capture_pid' = FirstChildPid
  /\ UNCHANGED <<stop_event, restart_capture>>
  /\ UNCHANGED endFrame

\* The child ends: by itself, or on a signal it was sent.
EndChildDies ==
  /\ ending.child = "running"
  /\ ending' = [Logged(<<"died">>) EXCEPT !.child = "exited"]
  /\ UNCHANGED <<stop_event, restart_capture, current_capture_pid>>
  /\ UNCHANGED endFrame

\* while process.poll() is None and not stop_event.is_set():
EndLoopTest ==
  /\ ending.pc = "loop"
  /\ ending' = IF ending.child # "running"
                 THEN [Polled(ending) EXCEPT !.pc = "after", !.why = "exit"]
               ELSE IF stop_event
                 THEN [ending EXCEPT !.pc = "after", !.why = "stop"]
               ELSE [ending EXCEPT !.pc = "body"]
  /\ UNCHANGED <<stop_event, restart_capture, current_capture_pid>>
  /\ UNCHANGED endFrame

\* The body of the inner loop: a restart request, a stall (with the reaper
\* on the third stall in a row), or time.sleep(0.5).
EndBody(stalled, third) ==
  /\ ending.pc = "body"
  /\ IF restart_capture
       THEN /\ restart_capture' = FALSE
            /\ ending' = [ending EXCEPT !.pc = "terminate", !.why = "restart"]
       ELSE /\ ending' = IF ~stalled THEN [ending EXCEPT !.pc = "loop"]
                         ELSE IF third
                           THEN [ending EXCEPT !.pc = "reap",
                                               !.why = "stall reset"]
                         ELSE [ending EXCEPT !.pc = "terminate",
                                             !.why = "stall"]
            /\ UNCHANGED restart_capture
  /\ UNCHANGED <<stop_event, current_capture_pid>>
  /\ UNCHANGED endFrame

\* cleanup_capture_processes("stall reset"): the child's command holds the
\* marker and no pid is exempt, so it is a candidate; os.kill(pid, SIGTERM)
EndReapTerm ==
  /\ ending.pc = "reap"
  /\ ending' = [Logged(<<"TERM">>) EXCEPT !.pc = "reap_wait"]
  /\ UNCHANGED <<stop_event, restart_capture, current_capture_pid>>
  /\ UNCHANGED endFrame

\* ... the loop on _pid_exists(pid) until the deadline of 2 s: the pid of a
\* child nobody has collected exists whether or not the child has ended;
\* then os.kill(pid, SIGKILL).
EndReapKill ==
  /\ ending.pc = "reap_wait"
  /\ ending' = [Logged(<<"timeout", "KILL">>) EXCEPT !.pc = "terminate"]
  /\ UNCHANGED <<stop_event, restart_capture, current_capture_pid>>
  /\ UNCHANGED endFrame

\* process.terminate(); break
EndTerminate ==
  /\ ending.pc = "terminate"
  /\ ending' = [Terminated(ending) EXCEPT !.pc = "after"]
  /\ UNCHANGED <<stop_event, restart_capture, current_capture_pid>>
  /\ UNCHANGED endFrame

\* if process.poll() is None:
EndAfter ==
  /\ ending.pc = "after"
  /\ ending' = [Polled(ending) EXCEPT
                  !.pc = IF ending.child = "running" THEN "wait" ELSE "clear"]
  /\ UNCHANGED <<stop_event, restart_capture, current_capture_pid>>
  /\ UNCHANGED endFrame

\* process.wait(timeout=2); on TimeoutExpired process.kill()
EndWait ==
  /\ ending.pc = "wait"
  /\ ending' = IF ending.child = "running"
                 THEN [Logged(<<"timeout", "KILL">>) EXCEPT !.pc = "wait_killed"]
                 ELSE [Polled(Logged(<<"waited">>)) EXCEPT !.pc = "clear"]
  /\ UNCHANGED <<stop_event, restart_capture, current_capture_pid>>
  /\ UNCHANGED endFrame

\* the second process.wait(timeout=2), TimeoutExpired passed over
EndWaitKilled ==
  /\ ending.pc = "wait_killed"
  /\ ending' = IF ending.child = "running"
                 THEN [Logged(<<"timeout">>) EXCEPT !.pc = "clear"]
                 ELSE [Polled(Logged(<<"waited">>)) EXCEPT !.pc = "clear"]
  /\ UNCHANGED <<stop_event, restart_capture, current_capture_pid>>
  /\ UNCHANGED endFrame

\* set_current_capture_pid(None); then `if stop_event.is_set():` or the
\* next round of the outer loop
EndClear ==
  /\ ending.pc = "clear"
  /\ current_capture_pid' = NoPid
  /\ ending' = [Logged(<<"clear">>) EXCEPT
                  !.pc = IF stop_event THEN "stop_term" ELSE "none"]
  /\ UNCHANGED <<stop_event, restart_capture>>
  /\ UNCHANGED endFrame

\* if stop_event.is_set(): process.terminate(); break
EndStopTerminate ==
  /\ ending.pc = "stop_term"
  /\ ending' = [Terminated(ending) EXCEPT !.pc = "exited"]
  /\ UNCHANGED <<stop_event, restart_capture, current_capture_pid>>
  /\ UNCHANGED endFrame

EndNext ==
  \/ EndLaunch
  \/ EndChildDies
  \/ EndLoopTest
  \/ \E stalled, third \in BOOLEAN : EndBody(stalled, third)
  \/ EndReapTerm
  \/ EndReapKill
  \/ EndTerminate
  \/ EndAfter
  \/ EndWait
  \/ EndWaitKilled
  \/ EndClear
  \/ EndStopTerminate
  \/ SignalStop
  \/ PostRestart

(***************************************************************************)
(* Section 15.  The error event of analyze_segment, step by step           *)
(*                                                                         *)
(* The part of analyze_segment from the result of run_birdnet (or the      *)
(* missing template) to write_latest, for workers that run one analysis    *)
(* after another: `with analysis_error_lock:` is entered, the message is   *)
(* compared with analysis_last_error, log_event runs, the string is        *)
(* assigned, the lock is left, the payload built before is written.  The   *)
(* lock is held by the worker whose pc stands inside the with-block.       *)
(***************************************************************************)
ErrRounds == 2      \* analyses one worker runs

ErrMessages == {NoError, TimedOut, Failed}    \* what run_birdnet returns

ErrRest ==
  [pc |-> "idle", error |-> NoError, status |-> "", seen |-> NoError,
   emitted |-> <<>>, round |-> 0]

InLock == {"check", "log", "set", "skip", "clear"}

\* Mutant of analysis_error_lock: nobody is ever taken to hold it.
analysis_error_lock_free == {}

\* analysis_error_lock: the workers inside a with-block
analysis_error_lock == {w \in AnWorkerIds : an[w].pc \in InLock}

errFrame == <<storeFrame, anFrame, files, out_dirs, out_files, next_uuid,
              last_detection, clip_index>>

\* The analysis has its result and has built its payload: status "idle" with
\* no template, "error" with an error of run_birdnet, "listening" otherwise.
ErrResult(w, error) ==
  /\ an[w].pc \in {"idle", "done"}
  /\ an[w].round < ErrRounds
  /\ an' = [an EXCEPT ![w] =
              [pc |-> "enter",
               error |-> IF birdnet_template = "" THEN TemplateNotSet
                         ELSE error,
               status |-> IF birdnet_template = "" THEN "idle"
                          ELSE IF error # NoError THEN "error"
                          ELSE "listening",
               seen |-> NoError, emitted |-> <<>>,
               round |-> an[w].round + 1]]
  /\ UNCHANGED <<analysis_last_error, published>>
  /\ UNCHANGED errFrame

\* with analysis_error_lock:
ErrEnter(w) ==
  /\ an[w].pc = "enter"
  /\ analysis_error_lock = {}
  /\ an' = [an EXCEPT ![w].pc = IF an[w].error = NoError THEN "clear"
                                ELSE "check"]
  /\ UNCHANGED <<analysis_last_error, published>>
  /\ UNCHANGED errFrame

\* if error != analysis_last_error:
ErrCheck(w) ==
  /\ an[w].pc = "check"
  /\ an' = [an EXCEPT ![w].seen = analysis_last_error,
                      ![w].pc = IF an[w].error # analysis_last_error
                                  THEN "log" ELSE "skip"]
  /\ UNCHANGED <<analysis_last_error, published>>
  /\ UNCHANGED errFrame

\* log_event("error", error)
ErrLog(w) ==
  /\ an[w].pc = "log"
  /\ an' = [an EXCEPT ![w].emitted =
                        Append(@, Event("error", an[w].error, <<>>, FALSE)),
                      ![w].pc = "set"]
  /\ UNCHANGED <<analysis_last_error, published>>
  /\ UNCHANGED errFrame

\* analysis_last_error = error, and the end of the with-block
ErrSet(w) ==
  /\ an[w].pc = "set"
  /\ analysis_last_error' = an[w].error
  /\ an' = [an EXCEPT ![w].pc = "write"]
  /\ UNCHANGED published
  /\ UNCHANGED errFrame

\* The end of the with-block when the message repeats.
ErrSkip(w) ==
  /\ an[w].pc = "skip"
  /\ an' = [an EXCEPT ![w].pc = "write"]
  /\ UNCHANGED <<analysis_last_error, published>>
  /\ UNCHANGED errFrame

\* with analysis_error_lock: analysis_last_error = None
ErrClear(w) ==
  /\ an[w].pc = "clear"
  /\ analysis_last_error' = NoError
  /\ an' = [an EXCEPT ![w].pc = "write"]
  /\ UNCHANGED published
  /\ UNCHANGED errFrame

\* write_latest(payload)
ErrWrite(w) ==
  /\ an[w].pc = "write"
  /\ published' = [published EXCEPT
                     !.status = an[w].status,
                     !.status_message =
                       IF an[w].error # NoError THEN an[w].error
                       ELSE "No detections"]
  /\ an' = [an EXCEPT ![w].pc = "done"]
  /\ UNCHANGED analysis_last_error
  /\ UNCHANGED errFrame

ErrNext ==
  \E w \in AnWorkerIds :
    \/ \E error \in ErrMessages : ErrResult(w, error)
    \/ ErrEnter(w)
    \/ ErrCheck(w)
    \/ ErrLog(w)
    \/ ErrSet(w)
    \/ ErrSkip(w)
    \/ ErrClear(w)
    \/ ErrWrite(w)

(***************************************************************************)
(* Section 16.  The supervisor with a command that cannot be built         *)
(*                                                                         *)
(* capture_loop and the requests of Section 5, started with settings from  *)
(* which build_ffmpeg_command builds no command (stream mode without a     *)
(* URL, device mode without a device), and with patches that repair and    *)
(* break the settings.                                                     *)
(***************************************************************************)
MisconfiguredSettings ==
  {DEFAULT_CONFIG, [DEFAULT_CONFIG EXCEPT !.input_mode = Str("avfoundation")]}

MisconfPatches ==
  {[k \in {"rtmp_url"} |-> Str("rtsp://example/stream")],
   [k \in {"rtmp_url"} |-> Str("")],
   [k \in {"input_mode"} |-> Str("avfoundation")],
   [k \in {"input_mode"} |-> Str("stream")]}

MisconfNext ==
  \/ \E updates \in MisconfPatches : SettingsApply(updates)
  \/ SettingsSignal
  \/ RestartRequest
  \/ ChildExits
  \/ Supervisor

(***************************************************************************)
(* Section 17.  The events of dropped segments                             *)
(*                                                                         *)
(* process_loop as far as it logs drops: drop_log_state, the clock, and    *)
(* the events logged.  What a tick or the gate worker finds (over-age      *)
(* files nobody tracks, more files than MAX_QUEUE_SEGMENTS, a full         *)
(* backlog) is an input.  disp holds drop_log_state and, per cause, the    *)
(* number of segments dropped so far.                                      *)
(***************************************************************************)
DropEpoch == 20        \* time.time() when process_loop starts, in seconds
DropStep == 4          \* seconds the clock moves at a time
MaxDropClock == 40     \* seconds the clock runs to
MaxDropEvents == 3     \* events logged
MaxDropped == 2        \* segments one tick drops for one cause
MaxDropCount == 3      \* segments dropped for one cause in all
DropWindow == 10       \* seconds between two events of drop_log_state

DropCauses == {"backlog", "stale", "cap"}

DropStart ==
  [drop_log_state |-> [backlog |-> 0, stale |-> 0],
   dropped |-> [c \in DropCauses |-> 0]]

DropEvent(message, at) ==
  [type |-> "analysis", message |-> message, timestamp |-> at]

\* if now - drop_log_state[...] > 10:
DropLogDue(last) == now - last > DropWindow

dropFrame == <<storeVars, configVars, latestVars, silenceVars, supVars, anVars,
               stop_event, request, response, ops, clip_calls, ending,
               files, next_seg, gate_queue, analysis_queue, gate_paths,
               analysis_paths, gate, workers, enq_count, run_count,
               stale_at_start, cap_event>>

DropElapse ==
  /\ now + DropStep <= MaxDropClock
  /\ now' = now + DropStep
  /\ UNCHANGED <<disp, events>>
  /\ UNCHANGED dropFrame

\* gate_worker with backlog >= MAX_ANALYSIS_BACKLOG: the event unless one
\* was logged in the last 10 s, then path.unlink
DropBacklog ==
  LET due == DropLogDue(disp.drop_log_state.backlog)
  IN  /\ Len(events) < MaxDropEvents
      /\ disp.dropped.backlog < MaxDropCount
      /\ events' = IF due
                     THEN Append(events,
                                 DropEvent("Dropped active segment due to backlog",
                                           now))
                     ELSE events
      /\ disp' = [disp EXCEPT
                    !.drop_log_state.backlog = IF due THEN now ELSE @,
                    !.dropped.backlog = @ + 1]
      /\ UNCHANGED now
      /\ UNCHANGED dropFrame

\* One tick of the dispatcher: `stale` over-age files are unlinked, the
\* first with the event unless one was logged in the last 10 s; then
\* `capped` files are unlinked for the cap and, if any, the event logged.
DropTick(stale, capped) ==
  LET due == stale > 0 /\ DropLogDue(disp.drop_log_state.stale)
      logged == (IF due THEN <<DropEvent("Dropped stale segment", now)>>
                 ELSE <<>>)
                \o (IF capped > 0
                      THEN <<DropEvent("Dropped queued segments to cap queue",
                                       now)>>
                      ELSE <<>>)
  IN  /\ stale + capped > 0
      /\ disp.dropped.stale + stale <= MaxDropCount
      /\ disp.dropped.cap + capped <= MaxDropCount
      /\ Len(events) + Len(logged) <= MaxDropEvents
      /\ events' = events \o logged
      /\ disp' = [disp EXCEPT
                    !.drop_log_state.stale = IF due THEN now ELSE @,
                    !.dropped.stale = @ + stale,
                    !.dropped.cap = @ + capped]
      /\ UNCHANGED now
      /\ UNCHANGED dropFrame

DropNext ==
  \/ DropElapse
  \/ DropBacklog
  \/ \E stale \in 0..MaxDropped, capped \in 0..MaxDropped :
       DropTick(stale, capped)

(***************************************************************************)
(* Section 18.  The mutexes                                                *)
(*                                                                         *)
(* Every `with <lock>:` block of the server, as the sequence of mutexes a  *)
(* thread holds at its deepest point, and the threads that enter it.  A    *)
(* thread enters a block when its first mutex is free, takes the next      *)
(* mutex of the block when that is free, and leaves in reverse order.      *)
(* ops[t].op is the block thread t is in, ops[t].held the number of its    *)
(* mutexes t holds, ops[t].leaving whether t is on its way out.            *)
(***************************************************************************)
LockThreads ==
  {"capture", "watchdog", "dispatcher", "gate", "worker1", "worker2", "http"}

\* Mutant of Nestings: get_species_heard_count callers take
\* last_detection_lock inside species_count_lock as well.
NestingsCrossed ==
  [get_log_revision |-> <<"log_revision_lock">>,
   update_species_set |-> <<"species_lock">>,
   update_species_counts |-> <<"species_count_lock", "last_detection_lock">>,
   get_config_snapshot |-> <<"config_lock">>,
   write_latest |-> <<"write_lock">>,
   get_last_detection |-> <<"last_detection_lock">>,
   record_last_detection |-> <<"last_detection_lock", "species_count_lock">>,
   append_log |-> <<"log_lock">>,
   append_event |-> <<"event_lock">>,
   analyze_segment_error |-> <<"analysis_error_lock", "event_lock">>,
   analyze_segment_reset |-> <<"analysis_error_lock">>,
   set_current_capture_pid |-> <<"capture_pid_lock">>,
   gate_paths_discard |-> <<"paths_lock">>]

\* The with-blocks: the accessors of each global (one mutex each), and the
\* two blocks that call a function taking another mutex: the last block of
\* record_last_detection (get_species_heard_count) and the error branches of
\* analyze_segment (log_event).
Nestings ==
  [get_log_revision |-> <<"log_revision_lock">>,
   update_species_set |-> <<"species_lock">>,
   update_species_counts |-> <<"species_count_lock">>,
   get_config_snapshot |-> <<"config_lock">>,
   write_latest |-> <<"write_lock">>,
   get_last_detection |-> <<"last_detection_lock">>,
   record_last_detection |-> <<"last_detection_lock", "species_count_lock">>,
   append_log |-> <<"log_lock">>,
   append_event |-> <<"event_lock">>,
   analyze_segment_error |-> <<"analysis_error_lock", "event_lock">>,
   analyze_segment_reset |-> <<"analysis_error_lock">>,
   set_current_capture_pid |-> <<"capture_pid_lock">>,
   gate_paths_discard |-> <<"paths_lock">>]

\* The blocks each thread enters.
BlocksOf(t) ==
  CASE t = "capture" ->
         {"get_config_snapshot", "append_event", "write_latest",
          "get_last_detection", "update_species_counts", "update_species_set",
          "get_log_revision", "set_current_capture_pid"}
    [] t = "watchdog" -> {"set_current_capture_pid", "append_event"}
    [] t = "dispatcher" -> {"gate_paths_discard", "append_event"}
    [] t = "gate" -> {"gate_paths_discard", "get_config_snapshot",
                      "append_event"}
    [] t \in {"worker1", "worker2"} ->
         DOMAIN Nestings \ {"set_current_capture_pid"}
    [] OTHER ->
         DOMAIN Nestings \ {"analyze_segment_error", "analyze_segment_reset",
                            "record_last_detection", "gate_paths_discard",
                            "set_current_capture_pid"}

LockIdle == [op |-> <<>>, held |-> 0, leaving |-> FALSE]

\* The mutexes thread t holds.
HeldBy(t) == {ops[t].op[i] : i \in 1..ops[t].held}

Free(lock) == \A t \in LockThreads : lock \notin HeldBy(t)

lockFrame == <<storeVars, configVars, latestVars, pipeVars, silenceVars,
               supVars, anVars, stop_event, events, request, response,
               clip_calls, ending>>

\* with <first mutex of the block>:
LockEnter(t, block) ==
  /\ ops[t] = LockIdle
  /\ block \in BlocksOf(t)
  /\ Free(Nestings[block][1])
  /\ ops' = [ops EXCEPT ![t] = [op |-> Nestings[block], held |-> 1,
                                leaving |-> FALSE]]
  /\ UNCHANGED lockFrame

\* the call inside the block that takes the next mutex
LockNext(t) ==
  /\ ~ops[t].leaving
  /\ ops[t].held > 0
  /\ ops[t].held < Len(ops[t].op)
  /\ Free(ops[t].op[ops[t].held + 1])
  /\ ops' = [ops EXCEPT ![t].held = @ + 1]
  /\ UNCHANGED lockFrame

\* the end of the innermost with-block the thread is in
LockLeave(t) ==
  /\ ops[t].held > 0
  /\ ops[t].leaving \/ ops[t].held = Len(ops[t].op)
  /\ ops' = [ops EXCEPT ![t] = IF ops[t].held = 1 THEN LockIdle
                               ELSE [@ EXCEPT !.held = @ - 1,
                                              !.leaving = TRUE]]
  /\ UNCHANGED lockFrame

LocksNext ==
  \E t \in LockThreads :
    \/ \E block \in DOMAIN Nestings : LockEnter(t, block)
    \/ LockNext(t)
    \/ LockLeave(t)

(***************************************************************************)
(* Section 19.  The pipeline kept running                                  *)
(*                                                                         *)
(* The capture process, the clock, the dispatcher, the gate worker and the *)
(* classifier workers of Section 4 on the scaled-down directory, without   *)
(* changes of the settings.  One classifier worker stands for the three.   *)
(***************************************************************************)
MaxLiveWorkers == 1

LiveWorkers == 1..MaxLiveWorkers

LiveDispatcher == Dispatcher(SmallAge, SmallQueueCap)

LiveGate == GateWorker(SmallBacklog)

\* analyze_segment returns, having deleted the segment.
LiveCompletes(w) == WorkerFinish(w, FALSE)

LiveNext ==
  \/ NewSegment
  \/ Tick
  \/ LiveDispatcher
  \/ LiveGate
  \/ \E w \in LiveWorkers : AnalysisWorker(w)

(***************************************************************************)
(* Specifications                                                          *)
(***************************************************************************)

InitStore == StoreInit /\ ConfigIdle /\ LatestIdle /\ PipeIdle /\ SupIdle
  /\ SilenceIdle /\ AnIdle /\ ServerIdle

SpecStore == InitStore /\ [][StoreNext]_vars

InitConfig == StoreIdle /\ ConfigInit /\ LatestIdle /\ PipeIdle /\ SupIdle
  /\ SilenceIdle /\ AnIdle /\ ServerIdle

SpecConfig == InitConfig /\ [][ConfigNext]_vars

InitLatest == StoreIdle /\ ConfigIdle /\ LatestInit /\ PipeIdle /\ SupIdle
  /\ SilenceIdle /\ AnIdle /\ ServerIdle

SpecLatest == InitLatest /\ [][LatestNext]_vars

InitPipe == StoreIdle /\ ConfigIdle /\ LatestIdle /\ PipeInit /\ SupIdle
  /\ SilenceIdle /\ AnIdle /\ ServerIdle

SpecPipe == InitPipe /\ [][PipeNext]_vars

InitCap == StoreIdle /\ ConfigIdle /\ LatestIdle /\ CapInit /\ SupIdle
  /\ SilenceIdle /\ AnIdle /\ ServerIdle

SpecCap == InitCap /\ [][CapNext]_vars

InitSup == StoreIdle /\ ConfigIdle /\ LatestIdle /\ PipeIdle /\ SupInit
  /\ SilenceIdle /\ AnIdle /\ ServerIdle

SpecSup == InitSup /\ [][SupNext]_vars

InitStall ==
  /\ StoreIdle /\ LatestIdle /\ PipeIdle /\ SilenceIdle /\ AnIdle /\ ServerIdle
  /\ StallInit
  /\ config \in LoadedConfigs
  /\ settings_file = config
  /\ restart_capture = FALSE
  /\ cfg_op = "start"
  /\ cfg_updates = <<>>
  /\ cfg_changed = {}
  /\ cfg_signalled = FALSE

SpecStall == InitStall /\ [][StallNext]_vars

\* The supervisor thread keeps running.
SpecSupLive == SpecSup /\ WF_vars(Supervisor)

SpecStallLive == SpecStall /\ WF_vars(Supervisor)

InitAnalyze ==
  /\ StoreIdle /\ ConfigIdle /\ LatestIdle /\ SupIdle /\ SilenceIdle
  /\ ServerIdle
  /\ PipeStarted(AnSegmentFiles, <<>>, <<>>, 1)
  /\ AnInit

SpecAnalyze == InitAnalyze /\ [][AnalyzeNext]_vars

InitStop ==
  /\ StoreIdle /\ LatestIdle /\ SilenceIdle /\ AnIdle /\ ServerIdle
  /\ StopInit
  /\ settings_file = config
  /\ cfg_op = "start"
  /\ cfg_updates = <<>>
  /\ cfg_changed = {}
  /\ cfg_signalled = FALSE

SpecStop == InitStop /\ [][StopNext]_vars

\* Every thread of the server keeps running.
SpecStopLive ==
  /\ SpecStop
  /\ WF_vars(Supervisor)
  /\ WF_vars(StopDispatcher)
  /\ WF_vars(StopGate)
  /\ \A w \in 1..SmallWorkers : WF_vars(StopWorker(w))

InitAuth ==
  /\ StoreIdle /\ ConfigIdle /\ LatestIdle /\ PipeIdle /\ SupIdle
  /\ SilenceIdle /\ AnIdle
  /\ stop_event = FALSE
  /\ events = <<>>
  /\ request \in Requests
  /\ response = NoRequest
  /\ ops = NoOps
  /\ clip_calls = NoClipCalls
  /\ ending = NoEnding

SpecAuth == InitAuth /\ [][Authenticate]_vars

InitRead ==
  /\ ConfigIdle /\ LatestIdle /\ PipeIdle /\ SupIdle /\ SilenceIdle /\ AnIdle
  /\ ReadInit

SpecRead == InitRead /\ [][ReadNext]_vars

InitManual ==
  /\ StoreInit /\ ConfigIdle /\ LatestIdle /\ PipeIdle /\ SupIdle
  /\ SilenceIdle /\ AnIdle /\ ServerIdle

SpecManual == InitManual /\ [][ManualNext]_vars

InitOps ==
  /\ OpsInit
  /\ ConfigIdle /\ LatestIdle /\ PipeIdle /\ SupIdle /\ SilenceIdle /\ AnIdle
  /\ ServerIdle

SpecOps == InitOps /\ [][OpsNext]_vars

InitRev ==
  /\ StoreIdle /\ RevStarted
  /\ ConfigIdle /\ PipeIdle /\ SupIdle /\ SilenceIdle /\ AnIdle /\ ServerIdle

SpecRev == InitRev /\ [][RevNext]_vars

InitClipRace ==
  /\ StoreIdle /\ ConfigIdle /\ LatestIdle /\ PipeIdle /\ SupIdle
  /\ SilenceIdle /\ ServerIdle
  /\ birdnet_template = "analyze {input} -o {output}"
  /\ min_confidence = DefaultMinConfidence
  /\ an = [w \in AnWorkerIds |-> AnRest]
  /\ out_dirs = {}
  /\ out_files = <<>>
  /\ next_uuid = 1
  /\ last_detection = NoDetection
  /\ analysis_last_error = NoError
  /\ published = NothingPublished
  /\ ClipsInit

SpecClipRace == InitClipRace /\ [][ClipRaceNext]_vars

InitEnd ==
  /\ StoreIdle /\ ConfigIdle /\ LatestIdle /\ PipeIdle /\ SupIdle
  /\ SilenceIdle /\ AnIdle /\ ServerIdle

SpecEnd == InitEnd /\ [][EndNext]_vars

InitErr ==
  /\ StoreIdle /\ ConfigIdle /\ LatestIdle /\ PipeIdle /\ SupIdle
  /\ SilenceIdle /\ ServerIdle
  /\ birdnet_template \in {"", "analyze {input} -o {output}"}
  /\ min_confidence = DefaultMinConfidence
  /\ an = [w \in AnWorkerIds |-> ErrRest]
  /\ out_dirs = {}
  /\ out_files = <<>>
  /\ next_uuid = 1
  /\ last_detection = NoDetection
  /\ analysis_last_error = NoError
  /\ published = NothingPublished
  /\ clip_index = <<>>
  /\ clip_op = NoClipOp

SpecErr == InitErr /\ [][ErrNext]_vars

InitMisconf ==
  /\ StoreIdle /\ LatestIdle /\ PipeIdle /\ SilenceIdle /\ AnIdle /\ ServerIdle
  /\ SupStarted(TRUE, <<>>)
  /\ config \in MisconfiguredSettings
  /\ settings_file = config
  /\ restart_capture = FALSE
  /\ cfg_op = "start"
  /\ cfg_updates = <<>>
  /\ cfg_changed = {}
  /\ cfg_signalled = FALSE

SpecMisconf == InitMisconf /\ [][MisconfNext]_vars

\* capture_loop is a thread of its own and keeps running.
SpecMisconfLive == SpecMisconf /\ WF_vars(Supervisor)

InitDrop ==
  /\ StoreIdle /\ ConfigIdle /\ LatestIdle /\ SupIdle /\ SilenceIdle
  /\ AnIdle /\ ServerIdle
  /\ now = DropEpoch
  /\ disp = DropStart
  /\ files = <<>>
  /\ next_seg = 1
  /\ gate_queue = <<>>
  /\ analysis_queue = <<>>
  /\ gate_paths = {}
  /\ analysis_paths = {}
  /\ gate = GateIdle
  /\ workers = [w \in 1..1 |-> WorkerIdle]
  /\ enq_count = <<>>
  /\ run_count = <<>>
  /\ stale_at_start = {}
  /\ cap_event = 0

SpecDrop == InitDrop /\ [][DropNext]_vars

InitLocks ==
  /\ StoreIdle /\ ConfigIdle /\ LatestIdle /\ PipeIdle /\ SupIdle
  /\ SilenceIdle /\ AnIdle
  /\ stop_event = FALSE
  /\ events = <<>>
  /\ request = NoRequest
  /\ response = NoRequest
  /\ ops = [t \in LockThreads |-> LockIdle]
  /\ clip_calls = NoClipCalls
  /\ ending = NoEnding

SpecLocks == InitLocks /\ [][LocksNext]_vars

InitLive ==
  /\ StoreIdle /\ ConfigIdle /\ LatestIdle
  /\ PipeStarted(<<>>, <<>>, <<>>, MaxLiveWorkers)
  /\ SupIdle /\ SilenceIdle /\ AnIdle /\ ServerIdle

SpecLive == InitLive /\ [][LiveNext]_vars

\* The clock runs, and the dispatcher, the gate worker and every classifier
\* worker are threads that keep being scheduled.  analyze_segment returns
\* or raises, as it happens.
SpecLiveFair ==
  /\ SpecLive
  /\ WF_vars(Tick)
  /\ WF_vars(LiveDispatcher)
  /\ WF_vars(LiveGate)
  /\ \A w \in LiveWorkers : WF_vars(AnalysisWorker(w))

\* The same, and an analysis that is attempted again and again returns at
\* some attempt.
SpecLiveCompleting ==
  /\ SpecLiveFair
  /\ \A w \in LiveWorkers : SF_vars(LiveCompletes(w))

InitClips ==
  /\ StoreIdle /\ ConfigIdle /\ LatestIdle /\ PipeIdle /\ SupIdle
  /\ SilenceIdle /\ ServerIdle
  /\ birdnet_template = "analyze {input} -o {output}"
  /\ min_confidence = DefaultMinConfidence
  /\ an = [w \in AnWorkerIds |-> AnRest]
  /\ out_dirs = {}
  /\ out_files = <<>>
  /\ next_uuid = 1
  /\ last_detection = NoDetection
  /\ analysis_last_error = NoError
  /\ published = NothingPublished
  /\ ClipsInit

SpecClips == InitClips /\ [][ClipsNext]_vars


\* The species of a stored row, as a full scan reads it.
RowSpecies(r) == IF r.raw.species = "" THEN "Unknown" ELSE r.raw.species

TableSpecies == {RowSpecies(detections[i]) : i \in 1..Len(detections)}

RowsWithSpecies(s) ==
  Cardinality({i \in 1..Len(detections) : RowSpecies(detections[i]) = s})

\* C1: after any sequence of append_log and delete_log_entry calls the
\* in-memory species set is the set of species of the rows of detections and
\* species_counts[s] is the number of rows of species s, for every species.
C1_AggregatesMatchScan ==
  /\ species_set = TableSpecies
  /\ DOMAIN species_counts = TableSpecies
  /\ \A s \in TableSpecies : species_counts[s] = RowsWithSpecies(s)

\* A step of the store operation `name`: every operation records its name in
\* last_op and leaves the wall clock alone, and the clock's own steps leave
\* last_op alone.
StoreStep(name) == last_op' = name /\ wall_clock' = wall_clock

\* C2: log_revision never decreases, and every append_log call with at least
\* one entry and every delete_log_entry call that removes a row leaves it
\* strictly greater, wherever the wall clock stands.
C2_RevisionAdvances ==
  [][/\ log_revision' >= log_revision
     /\ StoreStep("append_log") => log_revision' > log_revision
     /\ (StoreStep("delete_log_entry") /\ last_ret' = {TRUE})
          => log_revision' > log_revision
     /\ (StoreStep("append_log") \/ StoreStep("bump_log_revision")
           \/ (StoreStep("delete_log_entry") /\ last_ret' = {TRUE}))
          => log_revision' = IF wall_clock > log_revision + 1
                               THEN wall_clock
                               ELSE log_revision + 1]_vars

\* C2 witness: an append bumped the revision past a wall clock that stood
\* still or went backwards.
C2_Witness == last_op = "append_log" /\ log_revision > wall_clock + 1

\* C3: get_cached_summary returns the stored payload iff the revision stored
\* with it is the current one; when it is not (or no row is stored) the next
\* summarize_log recomputes the summary from the detections table and stores
\* it as the single summary_cache row, stamped with the current revision.
C3_CacheValidIffCurrentRevision ==
  [][/\ GetCachedSummary =>
          /\ (last_ret' # {}) <=>
               (\E r \in summary_cache : r.log_revision = log_revision)
          /\ \A p \in last_ret' : \E r \in summary_cache : r.payload = p
          /\ Cardinality(last_ret') <= 1
     /\ (SummarizeLog /\ ~(\E r \in summary_cache :
                              r.log_revision = log_revision)) =>
          /\ Cardinality(summary_cache') = 1
          /\ \A r \in summary_cache' :
               /\ r.cache_key = "log_summary"
               /\ r.log_revision = log_revision'
               /\ r.payload.total_detections = Len(detections')
               /\ DOMAIN r.payload.counts = TableSpecies
               /\ \A s \in TableSpecies :
                    r.payload.counts[s] = RowsWithSpecies(s)
               /\ last_ret' = {r.payload}
     /\ (SummarizeLog /\ (\E r \in summary_cache :
                             r.log_revision = log_revision)) =>
          /\ summary_cache' = summary_cache
          /\ \E r \in summary_cache : last_ret' = {r.payload}]_vars

\* C3 witness: a row built against another revision is stored, and
\* get_cached_summary returned nothing.
C3_Witness ==
  /\ last_op = "get_cached_summary"
  /\ last_ret = {}
  /\ \E r \in summary_cache : r.log_revision # log_revision

\* The id of a detection handed to append_log: the one it carries, or the
\* derived one when it carries none.
GivenId(entry) == IF entry.id = NoKey THEN entry_id(entry) ELSE entry.id

RecordsWithId(log, id) == {i \in 1..Len(log) : log[i].id = id}

NoEmptyIdStored == \A i \in 1..Len(detections) : detections[i].id # ""

C4_TruthyIdsRoundTrip ==
  [][/\ \A entries \in Batches :
          (/\ NoEmptyIdStored
           /\ \A i \in 1..Len(entries) : entries[i].id # ""
           /\ AppendLog(entries)) =>
          LET log == read_log(detections', -1)
              old == read_log(detections, -1)
              ids == {GivenId(entries[i]) : i \in 1..Len(entries)}
          IN  /\ \A i \in 1..Len(entries) :
                   /\ Cardinality(RecordsWithId(log, GivenId(entries[i]))) = 1
                   /\ (\A j \in (i + 1)..Len(entries) :
                         GivenId(entries[j]) # GivenId(entries[i]))
                        => \E k \in 1..Len(log) :
                             /\ log[k].id = GivenId(entries[i])
                             /\ log[k].timestamp = entries[i].timestamp
                             /\ log[k].species = entries[i].species
              /\ \A k \in 1..Len(old) :
                   old[k].id \notin ids => \E m \in 1..Len(log) : log[m] = old[k]
     /\ \A key \in {entry_id(e) : e \in Entries} \cup {""} :
          (NoEmptyIdStored /\ DeleteLogEntry(key)) =>
            LET log == read_log(detections', -1)
                old == read_log(detections, -1)
            IN  /\ RecordsWithId(log, key) = {}
                /\ Len(log) = Len(old) - Cardinality(RecordsWithId(old, key))
                /\ \A k \in 1..Len(old) :
                     old[k].id # key => \E m \in 1..Len(log) : log[m] = old[k]
                /\ last_ret' = {RecordsWithId(old, key) # {}}]_vars


(***************************************************************************)
(* Claims about the configuration store                                    *)
(***************************************************************************)

\* The keys whose stored value differs across the step.
StoredChanged == {k \in DOMAIN config : config'[k] # config[k]}

ConfigStep == cfg_op' \in {"update_config", "update_config again"}

\* C10: update_config sets the capture-restart flag if and only if the stored
\* value of a restart field (input_mode, rtmp_url, segment_seconds) changed;
\* the set it returns is exactly the keys whose stored value changed; and
\* applying the patch it was last given once more returns the empty set.
C10_UpdateConfigContract ==
  [][ConfigStep =>
       /\ cfg_signalled' <=> (restart_fields \cap StoredChanged # {})
       /\ cfg_changed' = StoredChanged
       /\ (cfg_op # "start" /\ cfg_op # "restart" /\ cfg_updates' = cfg_updates)
            => cfg_changed' = {}]_vars

\* The restart half of C10 on its own: the flag is set by update_config
\* exactly when the stored value of a restart field changed, and a patch that
\* changes no restart field leaves the flag as it was.
C10_RestartIffRestartFieldChanged ==
  [][ConfigStep =>
       /\ cfg_signalled' <=> (restart_fields \cap StoredChanged # {})
       /\ (restart_fields \cap StoredChanged = {})
            => restart_capture' = restart_capture]_vars

\* update_config signalled a restart for a patch of two keys of which only
\* one is a restart field.
C10_RestartWitness ==
  /\ cfg_op = "update_config"
  /\ cfg_signalled
  /\ restart_capture
  /\ cfg_changed = {"segment_seconds", "week"}

(***************************************************************************)
(* Claims about the latest snapshot                                        *)
(***************************************************************************)

RequiredKeys == {"timestamp", "status", "species", "log_revision"}

CompleteObject(content) ==
  content.kind = "object" /\ RequiredKeys \subseteq content.keys

\* C5: in every reachable state, whatever the interleaving of the writers
\* (capture loop, classifier worker, refresh_last_detection of a handler) and
\* across process restarts, latest.json is absent or a complete JSON object
\* with at least the keys timestamp, status, species and log_revision, and
\* what a reader read from it was never a partially written file.
C5_LatestAbsentOrComplete ==
  /\ fs[LATEST_PATH].kind = "absent" \/ CompleteObject(fs[LATEST_PATH])
  /\ \A content \in observed : CompleteObject(content)

\* A reader has read latest.json, and now the handler's refresh holds the
\* lock with the temp file half written while the capture loop and the
\* classifier worker wait for the lock.
C5_Witness ==
  /\ observed # {}
  /\ write_lock = "http"
  /\ fs[with_suffix_tmp(LATEST_PATH)].kind = "partial"
  /\ lpc["capture"] = "wl_lock"
  /\ lpc["worker"] = "wl_lock"

(***************************************************************************)
(* Claims about the segment pipeline                                       *)
(***************************************************************************)

TickCompletes == disp.pc = "dispatch" /\ disp'.pc = "scan"

\* C6: a segment file that exists when a dispatcher tick begins, is older
\* than the age limit and is in neither in-flight set at that time, is
\* deleted before that tick completes.
C6_StaleDeletedWithinTick ==
  [][TickCompletes => \A p \in stale_at_start : p \notin DOMAIN files']_vars

\* C7: under every interleaving of dispatcher, gate worker and analysis
\* workers a segment is put on the analysis queue at most once, analyze_segment
\* is entered for it at most once, and no two workers analyse it at once.
C7_ClassifiedAtMostOnce ==
  /\ \A p \in DOMAIN enq_count : enq_count[p] <= 1
  /\ \A p \in DOMAIN run_count : run_count[p] <= 1
  /\ \A v, w \in DOMAIN workers :
       (v # w /\ workers[v].pc = "run" /\ workers[w].pc = "run")
         => workers[v].path # workers[w].path

\* The first part of C7 on its own: no segment is put on the analysis queue
\* twice.
C7_NeverEnqueuedTwice == \A p \in DOMAIN enq_count : enq_count[p] <= 1

BacklogNow == Len(analysis_queue) + Cardinality(analysis_paths)

CapEnds == disp.pc = "cap" /\ disp'.pc = "dispatch"

\* The files the tick listed, oldest first, that are in no in-flight set.
UntrackedListed == SelectSeq(disp.files, LAMBDA p : ~Tracked(p))

Newest(listed, n) == {listed[k] : k \in (Len(listed) - n + 1)..Len(listed)}

StillThere(listed) == {listed[k] : k \in 1..Len(listed)} \cap DOMAIN files'

Smaller(a, b) == IF a <= b THEN a ELSE b

\* C9 as claimed: a tick that finds N > MAX_QUEUE_SEGMENTS files within the
\* age limit deletes the N - MAX_QUEUE_SEGMENTS oldest ones that are not
\* in-flight and emits one event reporting that number; with no file
\* in-flight exactly the MAX_QUEUE_SEGMENTS newest remain.
C9_DropsExcessAndReports ==
  [][CapEnds =>
       /\ disp.dropped = disp.drop_count
       /\ Len(UntrackedListed) >= disp.drop_count
       /\ disp.unlinked = SubSeq(UntrackedListed, 1, disp.drop_count)
       /\ cap_event' = disp.drop_count
       /\ (Len(UntrackedListed) = Len(disp.files)) =>
            StillThere(disp.files) = Newest(disp.files, MAX_QUEUE_SEGMENTS)]_vars

\* C9 amended: the tick deletes the oldest files that are not in-flight until
\* N - MAX_QUEUE_SEGMENTS are deleted or none is left, deletes no in-flight
\* file, and emits one event, reporting the number deleted, only when it
\* deleted at least one; with no file in-flight it deletes
\* N - MAX_QUEUE_SEGMENTS files, reports that number, and exactly the
\* MAX_QUEUE_SEGMENTS newest remain.
C9_DropsUntrackedExcess ==
  [][CapEnds =>
       LET k == Smaller(disp.drop_count, Len(UntrackedListed))
       IN  /\ disp.dropped = k
           /\ disp.unlinked = SubSeq(UntrackedListed, 1, k)
           /\ \A j \in 1..k : disp.unlinked[j] \notin DOMAIN files'
           /\ \A j \in 1..Len(disp.files) :
                Tracked(disp.files[j]) => disp.files[j] \in DOMAIN files'
           /\ cap_event' = k
           /\ (Len(UntrackedListed) = Len(disp.files)) =>
                /\ k = Len(disp.files) - MAX_QUEUE_SEGMENTS
                /\ StillThere(disp.files) =
                     Newest(disp.files, MAX_QUEUE_SEGMENTS)]_vars

\* Seventy files, none in-flight: the cap loop has deleted ten, sixty remain
\* and the event reports ten.
C9_Witness ==
  /\ disp.pc = "dispatch"
  /\ disp.i = 1
  /\ Len(disp.unlinked) = CapExcess
  /\ cap_event = CapExcess
  /\ Cardinality(DOMAIN files) = MAX_QUEUE_SEGMENTS
  /\ gate_paths = {}

\* A tick found more files than the cap, all of them in-flight: nothing was
\* deleted and no event was emitted.
C9_NothingToDrop ==
  /\ disp.pc = "dispatch"
  /\ disp.i = 1
  /\ disp.drop_count > 0
  /\ disp.unlinked = <<>>
  /\ cap_event = 0
  /\ Cardinality(DOMAIN files) > MAX_QUEUE_SEGMENTS

(***************************************************************************)
(* Claims about the capture supervisor                                     *)
(***************************************************************************)

\* The settings a command would be built from now.
CommandNow == [k \in CommandKeys |-> config[k]]

ChildRunning(p) == current_capture_pid = p /\ p \in DOMAIN procs

LaunchesLeft == next_pid < FirstChildPid + MaxChildren

\* No request is being handled and none is waiting for the supervisor.
NoRequestPending == ~restart_capture /\ req = "idle"

\* The child the inner loop watches was started from the current settings.
ChildIsCurrent ==
  (sup.pc \in {"poll", "stall"} /\ sup.pid \in DOMAIN procs /\ NoRequestPending)
    => procs[sup.pid].command = CommandNow

\* The supervisor has published that no command can be built.
NoCommand == sup.pc = "err_test" /\ sup_status # "listening: Listening"

\* The flag is clear again, or the child ended by itself before the
\* supervisor looked at the flag.
FlagClearedOrChildGone(p) == ~restart_capture \/ p \notin DOMAIN procs

\* A step that clears the flag ends the child the supervisor holds, if any,
\* and leads to a new snapshot before anything is launched.
FlagConsumed ==
  (restart_capture /\ ~restart_capture')
    => (sup.pid \notin DOMAIN procs' /\ sup'.pc \in {"after", "snapshot"})

\* C11 as stated: whenever the restart flag is set while a capture child is
\* running, the supervisor eventually clears the flag, ends that child and
\* starts a new child from a snapshot taken after the change; no request is
\* lost and a running child with no request pending uses the current
\* settings.
C11_RestartReplacesChild ==
  /\ []ChildIsCurrent
  /\ \A p \in FirstChildPid..(FirstChildPid + MaxChildren - 1) :
       (restart_capture /\ ChildRunning(p) /\ LaunchesLeft)
         ~> (p \notin DOMAIN procs /\ current_capture_pid \notin {NoPid, p})
  /\ \A p \in FirstChildPid..(FirstChildPid + MaxChildren - 1) :
       (restart_capture /\ ChildRunning(p)) ~> FlagClearedOrChildGone(p)
  /\ [][FlagConsumed]_vars

\* C11 amended: whenever the restart flag is set while a capture child is
\* running, the supervisor eventually clears the flag and ends that child;
\* it then starts a new child from a snapshot taken after the change if a
\* command can be built from that snapshot, and otherwise publishes the
\* error and runs no child; a running child with no request pending uses
\* the current settings.
C11_RestartReplacesOrStopsChild ==
  /\ []ChildIsCurrent
  /\ \A p \in FirstChildPid..(FirstChildPid + MaxChildren - 1) :
       (restart_capture /\ ChildRunning(p) /\ LaunchesLeft)
         ~> (/\ p \notin DOMAIN procs
             /\ \/ current_capture_pid \notin {NoPid, p}
                \/ (NoCommand /\ current_capture_pid = NoPid))
  /\ \A p \in FirstChildPid..(FirstChildPid + MaxChildren - 1) :
       (restart_capture /\ ChildRunning(p)) ~> FlagClearedOrChildGone(p)
  /\ [][FlagConsumed]_vars

\* A child was replaced on a request: the flag is clear again and the new
\* child runs a command built from the changed settings.
C11_Witness ==
  /\ sup.pc = "setpid"
  /\ sup.restart_requested
  /\ sup.pid \in DOMAIN procs
  /\ NoRequestPending
  /\ procs[sup.pid].command = CommandNow
  /\ config.segment_seconds = Num(100)

\* What the stall test of the claim gives for the inner loop's locals.
ClaimLastActivity ==
  IF latest_segment_mtime(files) > sup.last_segment_time
    THEN latest_segment_mtime(files) ELSE sup.last_segment_time

ClaimStallTimeout ==
  LET s == sup.snapshot.segment_seconds.n
  IN  IF 5 * s > 1000 THEN 5 * s ELSE 1000

ClaimStalled == (now - ClaimLastActivity) * 100 > ClaimStallTimeout

ClaimCount ==
  IF latest_segment_mtime(files) > sup.last_segment_time THEN 0
  ELSE sup.stall_count

StallRound == sup.pc = "stall" /\ sup'.pc # "stall"

\* C12: in a round of the inner loop with a running child, when no segment
\* newer than last_activity has appeared for more than max(10 s, 5 x
\* segment_seconds) the supervisor clears the segment directory, counts the
\* stall, ends the child and goes on to restart capture; at the third stall
\* it runs the orphan reap and the counter is 0 again; a newer segment sets
\* the counter to 0; the counter is always in 0..2; and capture is started
\* again after a stall.
C12_StallRestarts ==
  /\ [](sup.stall_count \in 0..2)
  /\ [][StallRound =>
          IF ClaimStalled
            THEN /\ files' = <<>>
                 /\ sup.pid \notin DOMAIN procs'
                 /\ sup'.restart_requested
                 /\ sup'.pc = "after"
                 /\ sup'.stall_count = IF ClaimCount + 1 = 3 THEN 0
                                       ELSE ClaimCount + 1
                 /\ ClaimCount + 1 = 3 =>
                      \A p \in DOMAIN procs' : ~procs'[p].marker
            ELSE /\ sup'.pc = "poll"
                 /\ sup'.stall_count = ClaimCount
                 /\ UNCHANGED <<files, procs>>]_vars
  /\ (sup.pc = "after" /\ sup.restart_requested /\ LaunchesLeft)
        ~> (sup.pc = "setpid")

\* The third stall in a row: the reap ran and the counter is 0 again.
C12_Witness ==
  /\ sup.pc = "after"
  /\ sup.stall_count = 0
  /\ sup.restart_requested
  /\ sup_event \in {"Repeated stalls detected, forcing capture reset",
                    "Cleaned orphan capture process(es) (stall reset)"}

\* C13: the orphan reaper run at startup and by the watchdog delivers TERM
\* and KILL only to processes whose command line holds the marker and that
\* are not the current capture child when the signal is sent.
C13_ReaperSparesCurrentChild ==
  \A r \in sig_log :
    r.by \in {"startup", "watchdog"} => (r.marker /\ ~r.current)

\* The reaper signals only processes whose command line holds the marker.
C13_ReaperSignalsMarkedOnly == \A r \in sig_log : r.marker

(***************************************************************************)
(* Claims about the silence gate                                           *)
(***************************************************************************)

\* The chunks of segment p at or above the threshold, and how long they last
\* together.
ActiveChunks(p) ==
  {i \in 1..Len(AudioOf(p)) : AudioOf(p)[i].db >= silence_threshold_db}

RECURSIVE Duration(_, _)
Duration(p, chunks) ==
  IF chunks = {} THEN 0
  ELSE LET i == CHOOSE k \in chunks : TRUE
       IN  AudioOf(p)[i].dur + Duration(p, chunks \ {i})

\* Silent as the claim defines it.
ClaimSilent(p) == Duration(p, ActiveChunks(p)) < silence_min_seconds

SilentCount(p) == IF p \in DOMAIN silent_events THEN silent_events[p] ELSE 0

GateJudges == gate.pc = "activity" /\ gate'.pc # "activity"

\* The gate's handling of a segment it judges silent: the file is deleted,
\* one "Skipped silent segment" event is logged and nothing is put on the
\* classifier queue; a segment it judges active is left alone.
C14_SilentBranch ==
  [][(GateJudges /\ Exists(gate.path)) =>
       IF ClaimSilent(gate.path)
         THEN /\ ~(gate.path \in DOMAIN files')
              /\ gate.path \in DOMAIN silent_events'
              /\ silent_events'[gate.path] = SilentCount(gate.path) + 1
              /\ UNCHANGED <<analysis_queue, analysis_paths, enq_count>>
              /\ gate'.pc = "get"
         ELSE /\ UNCHANGED <<files, silent_events>>
              /\ gate'.pc = "qsize"]_vars

\* C14: a segment the silence gate has judged silent is deleted, has
\* exactly one "Skipped silent segment" event, was never put on the
\* classifier queue and was never analysed (so that it has no detection row
\* and bumped no revision).
C14_SilentNeverClassified ==
  \A p \in DOMAIN silent_events :
    silent_events[p] >= 1 =>
      /\ silent_events[p] = 1
      /\ p \notin DOMAIN files
      /\ enq_count[p] = 0
      /\ run_count[p] = 0

\* A segment judged silent that was never on the classifier queue.
C14_SilentSkipped ==
  \E p \in DOMAIN silent_events :
    silent_events[p] = 1 /\ enq_count[p] = 0 /\ p \notin DOMAIN files

(***************************************************************************)
(* Claims about segment analysis                                           *)
(***************************************************************************)

\* The step in which worker w finishes a segment whose classification gave
\* no error.
Publishes(w) ==
  /\ an[w].pc = "publish"
  /\ an'[w].pc = "done"
  /\ an[w].error = NoError

\* What worker w logged in this step.
NewEvents(w) ==
  SubSeq(an'[w].emitted, Len(an[w].emitted) + 1, Len(an'[w].emitted))

\* The predictions of worker w at or above, and below, min_confidence.
Qualifying(w) ==
  SelectSeq(an[w].predictions, LAMBDA p : AtLeast(p.confidence, min_confidence))

NearMisses(w) ==
  SelectSeq(an[w].predictions, LAMBDA p : Under(p.confidence, min_confidence))

Descending(r) ==
  \A i, j \in 1..Len(r) :
    i < j => r[i].confidence.kind = "num" /\ r[j].confidence.kind = "num"
             /\ r[i].confidence.n >= r[j].confidence.n

\* r is the at most TopN highest-confidence members of q, highest first.
IsTopOf(r, q) ==
  /\ Len(r) = (IF Len(q) < TopN THEN Len(q) ELSE TopN)
  /\ Descending(r)
  /\ \E f \in [1..Len(r) -> 1..Len(q)] :
       /\ \A i, j \in 1..Len(r) : i # j => f[i] # f[j]
       /\ \A i \in 1..Len(r) : q[f[i]] = r[i]
       /\ \A k \in 1..Len(q) :
            (\A i \in 1..Len(r) : f[i] # k)
              => \A i \in 1..Len(r) : q[k].confidence.n <= r[i].confidence.n

\* The rows this step appended to the detections table.
NewRows == SubSeq(detections', Len(detections) + 1, Len(detections'))

DetectedEventsOf(w) ==
  SelectSeq(NewEvents(w),
            LAMBDA e : e.type = "detection" /\ ~e.below_threshold)

\* What C15 promises of the step that publishes r as the recorded
\* predictions of worker w.
RecordsAndPublishes(w, r) ==
  /\ IsTopOf(r, Qualifying(w))
  /\ Len(detections') = Len(detections) + Len(r)
  /\ SubSeq(detections', 1, Len(detections)) = detections
  /\ \A i \in 1..Len(r) :
       /\ NewRows[i].species = r[i].species
       /\ NewRows[i].raw.confidence = r[i].confidence
       /\ NewRows[i].timestamp = NewRows[1].timestamp
  /\ DetectedEventsOf(w) =
       [i \in 1..Len(r) |-> Event("detection", "Detected", <<r[i]>>, FALSE)]
  /\ published'.status = "listening"
  /\ published'.status_message = "Detected"
  /\ published'.species = r[1].species
  /\ published'.top_predictions = r

\* C15: when the classifier succeeds with at least one prediction of
\* confidence >= min_confidence, the worker appends exactly one detection row
\* per recorded prediction (the at most 3 highest-confidence ones), all rows
\* sharing one timestamp, emits exactly one detection event per recorded
\* prediction, and publishes a snapshot with status "listening",
\* status_message "Detected", species of the highest-confidence prediction
\* and top_predictions equal to the recorded predictions in descending
\* confidence order.
C15_DetectedRecordedAndPublished ==
  [][\A w \in AnWorkerIds :
       (Publishes(w) /\ Qualifying(w) # <<>>)
         => RecordsAndPublishes(w, published'.top_predictions)]_vars

\* The same with every confidence the classifier wrote being a number.
AllNumeric(w) ==
  \A i \in 1..Len(an[w].predictions) :
    an[w].predictions[i].confidence.kind = "num"

C15_DetectedWhenAllNumeric ==
  [][\A w \in AnWorkerIds :
       (Publishes(w) /\ Qualifying(w) # <<>> /\ AllNumeric(w))
         => RecordsAndPublishes(w, published'.top_predictions)]_vars

\* A worker has published three of four predictions that reached the
\* threshold.
C15_ThreeOfFour ==
  \E w \in AnWorkerIds :
    /\ an[w].pc = "done"
    /\ an[w].error = NoError
    /\ Len(Qualifying(w)) = 4
    /\ Len(published.top_predictions) = 3
    /\ Len(detections) >= 3

\* A worker has published a snapshot whose species is not the one of the
\* highest confidence the classifier reported.
C15_LowerSpeciesPublished ==
  \E w \in AnWorkerIds :
    /\ an[w].pc = "done"
    /\ published.status_message = "Detected"
    /\ published.top_predictions = AboveOf(an[w].predictions, min_confidence)
    /\ \E i \in 1..Len(an[w].predictions) :
         /\ an[w].predictions[i].confidence.kind = "num"
         /\ published.top_predictions[1].confidence.n
              < an[w].predictions[i].confidence.n

\* What C16 promises of the step of worker w.
NoneRecorded(w) ==
  /\ detections' = detections
  /\ log_revision' = log_revision
  /\ species_set' = species_set
  /\ species_counts' = species_counts
  /\ last_detection' = last_detection
  /\ SelectSeq(NewEvents(w), LAMBDA e : e.type = "analysis")
       = <<Event("analysis", "No detections above", <<min_confidence>>, FALSE)>>
  /\ Len(SelectSeq(NewEvents(w), LAMBDA e : e.type = "detection")) = 1
  /\ \A i \in 1..Len(NewEvents(w)) :
       NewEvents(w)[i].type = "detection"
         => /\ NewEvents(w)[i].below_threshold
            /\ NewEvents(w)[i].message = "Below threshold"
            /\ IsTopOf(NewEvents(w)[i].about, NearMisses(w))
  /\ published'.status = "listening"
  /\ published'.species = "No detection"

AllBelow(w) ==
  /\ an[w].predictions # <<>>
  /\ \A i \in 1..Len(an[w].predictions) :
       Under(an[w].predictions[i].confidence, min_confidence)

\* C16: when the classifier succeeds and every prediction it returns (there
\* is at least one) has confidence below min_confidence, no detection row is
\* appended, the log revision, the species aggregates and the last-detection
\* record are unchanged, exactly one analysis event "No detections above
\* <threshold>" and exactly one detection event flagged below_threshold,
\* listing at most the 3 highest-confidence predictions, are emitted, and the
\* snapshot has status "listening" and species "No detection".
C16_BelowThresholdOnly ==
  [][\A w \in AnWorkerIds :
       (Publishes(w) /\ AllBelow(w)) => NoneRecorded(w)]_vars

\* A worker has finished a segment for which the classifier gave four
\* predictions, all below the threshold, and listed three of them.
C16_Witness ==
  \E w \in AnWorkerIds :
    /\ an[w].pc = "done"
    /\ an[w].error = NoError
    /\ Len(an[w].predictions) = 4
    /\ AllBelow(w)
    /\ \E i \in 1..Len(an[w].emitted) :
         /\ an[w].emitted[i].below_threshold
         /\ Len(an[w].emitted[i].about) = 3
    /\ published.species = "No detection"
    /\ published.status = "listening"

\* What is left of the invocation of worker w: its run directory, its
\* output file.
RunDirLeft(w) == an[w].run_dir # NoDir /\ an[w].run_dir \in out_dirs

OutputLeft(w) ==
  an[w].run_dir # NoDir
    /\ OutputFile(an[w].run_dir, an[w].path) \in DOMAIN out_files

\* C17: after a worker has finished handling a segment, whatever the outcome
\* (detections, no detections, CSV missing with exit code 0, malformed
\* template, command not found, timeout, non-zero exit, unreadable CSV,
\* template not set), the output file and the subdirectory created for that
\* invocation no longer exist, and the segment file has been deleted.
C17_NothingLeftBehind ==
  \A w \in AnWorkerIds :
    an[w].pc = "done"
      => /\ ~RunDirLeft(w)
         /\ ~OutputLeft(w)
         /\ an[w].path \notin DOMAIN files

\* The part of C17 about the segment and the output file, and about the
\* subdirectory of the invocations that found a CSV.
C17_SegmentAndCsvGone ==
  \A w \in AnWorkerIds :
    an[w].pc = "done"
      => /\ ~OutputLeft(w)
         /\ an[w].path \notin DOMAIN files
         /\ an[w].csv => ~RunDirLeft(w)

\* A worker has finished a segment for which the classifier timed out, and
\* the subdirectory of that invocation is still there.
C17_RunDirLeftBehind ==
  \E w \in AnWorkerIds :
    /\ an[w].pc = "done"
    /\ an[w].error = TimedOut
    /\ RunDirLeft(w)

\* Worker w is between resolve_output_paths and the end of run_birdnet.
Invoking(w) == an[w].pc \in {"run", "collect"}

\* Worker w runs resolve_output_paths in this step.
Resolves(w) == an[w].pc = "resolve" /\ an'[w].pc # "resolve"

\* C19: any two classifier invocations that overlap in time have different
\* output paths: each run_birdnet call gets a subdirectory of its own that
\* did not exist before, and expects its CSV inside it, so no two concurrent
\* invocations write to or delete the same path, also when both handle
\* segments with the same file name.
C19_OutputPathsDistinct ==
  /\ [](\A v, w \in AnWorkerIds :
          (v # w /\ Invoking(v) /\ Invoking(w))
            => /\ an[v].run_dir # an[w].run_dir
               /\ OutputFile(an[v].run_dir, an[v].path)
                    # OutputFile(an[w].run_dir, an[w].path))
  /\ [][\A w \in AnWorkerIds :
          Resolves(w)
            => /\ an'[w].run_dir \notin out_dirs
               /\ an'[w].run_dir \in out_dirs'
               /\ \A f \in DOMAIN out_files : f.dir # an'[w].run_dir]_vars

\* Two invocations for the same segment file overlap, the classifier of one
\* has written its CSV.
C19_Witness ==
  /\ Invoking(1) /\ Invoking(2)
  /\ an[1].path = an[2].path
  /\ an[1].pc = "collect"


(***************************************************************************)
(* Claims about the best-clip archive                                      *)
(***************************************************************************)

\* The score the claim speaks of: confidence x 100 + snr_db.
ClaimScore(prediction, snr_db) ==
  prediction.confidence.n + (IF snr_db = NoSnr THEN 0 ELSE snr_db)

\* The rule of C18 for one prediction.
ClaimReplaces(index, prediction, snr_db) ==
  LET species == prediction.species
      score == ClaimScore(prediction, snr_db)
  IN  \/ species \notin DOMAIN index
      \/ score > index[species].score
      \/ /\ prediction.confidence.n - index[species].confidence.n \in -2..2
         /\ score > index[species].score

\* The archive after the rule of C18 has been applied to each prediction in
\* turn.
RECURSIVE ClaimArchive(_, _, _, _)
ClaimArchive(index, segment, snr_db, predictions) ==
  IF predictions = <<>> THEN index
  ELSE LET p == Head(predictions)
           next == IF ClaimReplaces(index, p, snr_db)
                     THEN [s \in DOMAIN index \cup {p.species} |->
                             IF s = p.species
                               THEN ClipEntry(p.species, p.confidence, snr_db,
                                              ClaimScore(p, snr_db), segment)
                               ELSE index[s]]
                     ELSE index
       IN  ClaimArchive(next, segment, snr_db, Tail(predictions))

\* update_best_clips ran in this step and every copy it tried succeeded.
ClipsUpdated ==
  /\ clip_op'.predictions # <<>>
  /\ \A i \in 1..Len(clip_op'.predictions) :
       clip_op'.predictions[i].species \in clip_op'.copies

\* C18: for each above-threshold prediction, update_best_clips replaces the
\* archived clip and index entry of the species exactly when the archive has
\* no entry for that species, or the new score (confidence x 100 + snr_db)
\* strictly exceeds the archived score, or the new confidence is within 0.02
\* of the archived confidence and the score improves; in every other case the
\* archived entry and clip file are left unchanged.
C18_ReplacedExactlyWhenBetter ==
  [][ClipsUpdated
       => clip_index' = ClaimArchive(clip_index, clip_op'.segment,
                                     clip_op'.snr_db, clip_op'.predictions)]_vars

\* What the archive does guarantee: an entry is replaced only by a clip of a
\* strictly higher score whose confidence is not more than 0.02 lower, and an
\* entry, once there, is never removed.
C18_ReplacedOnlyByHigherScore ==
  [][\A s \in DOMAIN clip_index :
       /\ s \in DOMAIN clip_index'
       /\ clip_index'[s] # clip_index[s]
            => /\ clip_index'[s].score > clip_index[s].score
               /\ clip_index'[s].confidence.n + 2
                    >= clip_index[s].confidence.n]_vars

\* A clip of a higher score (0.85 x 100 + 30 against 0.90 x 100 + 5) was
\* offered, its copy would have succeeded, and the archived entry is the old
\* one.
C18_HigherScoreKeptOut ==
  /\ clip_op.predictions = <<Prediction("Robin", Num(85))>>
  /\ clip_op.snr_db = 30
  /\ "Robin" \in clip_op.copies
  /\ "Robin" \in DOMAIN clip_index
  /\ clip_index["Robin"] = ClipEntry("Robin", Num(90), 5, 95, 0)

(***************************************************************************)
(* Claims about the allow-list of update_config                            *)
(***************************************************************************)

\* update_config called write_config in this step: it does so exactly when
\* the set it returns is not empty.
ConfigRewritten == cfg_changed' # {}

\* The keys of the patch that update_config has to ignore.
Ignored(updates) ==
  {k \in DOMAIN updates : k \notin allowed \/ Normalized(k, updates[k]) = {}}

\* The first half of C20: only allow-listed keys are modified, a key outside
\* the allow-list or with a value that fails its cast keeps its stored value,
\* and the other keys of the patch are applied.
C20_IgnoresWithoutBlocking ==
  [][ConfigStep =>
       /\ \A k \in DOMAIN config \ allowed : config'[k] = config[k]
       /\ \A k \in DOMAIN config \ DOMAIN cfg_updates' : config'[k] = config[k]
       /\ \A k \in Ignored(cfg_updates') : config'[k] = config[k]
       /\ \A k \in DOMAIN cfg_updates' \ Ignored(cfg_updates') :
            config'[k] \in Normalized(k, cfg_updates'[k])]_vars

\* C20: update_config modifies only keys on the allow-list; a patch key
\* outside the allow-list and a value that fails its cast are ignored, leave
\* that key's stored value unchanged and do not prevent the other valid keys
\* of the same patch from being applied; the configuration file is rewritten
\* only when at least one value changed.
C20_AllowListAndRewriteOnChange ==
  [][ConfigStep =>
       /\ \A k \in DOMAIN config \ allowed : config'[k] = config[k]
       /\ \A k \in Ignored(cfg_updates') : config'[k] = config[k]
       /\ \A k \in DOMAIN cfg_updates' \ Ignored(cfg_updates') :
            config'[k] \in Normalized(k, cfg_updates'[k])
       /\ ConfigRewritten => StoredChanged # {}]_vars

\* A patch with one key that fails its cast and one valid key has been
\* applied: the valid key changed, the other kept its value.
C20_MixedPatchApplied ==
  /\ cfg_op = "update_config"
  /\ DOMAIN cfg_updates = {"segment_seconds", "week"}
  /\ cfg_updates["segment_seconds"] = Str("abc")
  /\ cfg_changed = {"week"}
  /\ config["segment_seconds"] = DEFAULT_CONFIG["segment_seconds"]
  /\ settings_file = config


\* The capture loop, the dispatcher loop, the gate worker and every
\* classifier worker have left their loops.
CaptureExited == sup.pc \in {"exited", "returned"}

AllExited ==
  /\ CaptureExited
  /\ disp.pc = "exited"
  /\ gate.pc = "exited"
  /\ \A w \in 1..SmallWorkers : workers[w].pc = "exited"

\* A step in which capture_loop launches a capture child.
Launches == next_pid' # next_pid

\* A step in which classifier worker w takes a segment off its queue.
Dequeues(w) == workers[w].pc = "get" /\ workers'[w].pc = "exists"

\* The children capture_loop has launched that are still alive.
LiveChildren == {p \in DOMAIN procs : p >= FirstChildPid}

\* C21: once the stop event is set, the capture loop, the dispatcher loop
\* and every gate and classifier worker exit at their next checkpoint; no
\* capture child is launched afterwards and no segment is dequeued for
\* classification afterwards; when the capture loop has exited its child is
\* terminated and the current-pid cell is cleared.
C21_StopHaltsEverything ==
  /\ stop_event ~> AllExited
  /\ [][stop_event => /\ ~Launches
                      /\ \A w \in 1..SmallWorkers : ~Dequeues(w)]_vars
  /\ [](sup.pc = "exited" =>
          LiveChildren = {} /\ current_capture_pid = NoPid)

\* C21, the part that holds: every loop exits once the stop event is set.
C21_LoopsExit == stop_event ~> AllExited

\* C21, the part that holds: after the capture loop has exited no child of
\* it is alive and the current-pid cell is empty.
C21_ChildGoneAtExit ==
  sup.pc = "exited" => LiveChildren = {} /\ current_capture_pid = NoPid

\* C21: the stop event is set and a capture child that was launched after
\* it is running.
C21_ChildLaunchedAfterStop ==
  stop_event /\ sup.pc = "setpid" /\ sup.pid \in DOMAIN procs

\* C21: the stop event is set and a classifier worker that was waiting in
\* get has a segment in hand.
C21_DequeuedAfterStop ==
  stop_event /\ \E w \in 1..SmallWorkers : workers[w].pc = "exists"


\* The gate worker, or classifier worker w, has a segment in hand.
GateHandles == gate.pc \notin {"get", "exited"}

WorkerHandles(w) == workers[w].pc \notin {"get", "exited"}

Handled(p) ==
  \/ GateHandles /\ gate.path = p
  \/ \E w \in DOMAIN workers : WorkerHandles(w) /\ workers[w].path = p

Queued(q, p) == \E k \in 1..Len(q) : q[k] = p

NoPathTwice(q) == \A j, k \in 1..Len(q) : q[j] = q[k] => j = k

\* A step in which the dispatcher offers segment p to the gate.
Offers(p) == Len(gate_queue') > Len(gate_queue)
               /\ gate_queue'[Len(gate_queue')] = p

\* C26: a segment is in the gate's or the classifier's in-flight set for
\* the whole time a worker handles it, the dispatcher never offers a segment
\* to the gate again while it is queued or handled, and neither queue ever
\* holds the same path twice.
C26_InFlightWhileHandled ==
  /\ [](/\ GateHandles => Tracked(gate.path)
        /\ \A w \in DOMAIN workers : WorkerHandles(w) => Tracked(workers[w].path)
        /\ NoPathTwice(gate_queue)
        /\ NoPathTwice(analysis_queue))
  /\ [][\A p \in DOMAIN files :
          Offers(p) => ~(Queued(gate_queue, p) \/ Queued(analysis_queue, p)
                           \/ Handled(p))]_vars

\* C26, the part that holds: the gate queue never holds a path twice, and
\* a path on the gate queue is in the gate's in-flight set.
C26_GateQueueTracked ==
  /\ NoPathTwice(gate_queue)
  /\ \A k \in 1..Len(gate_queue) : gate_queue[k] \in gate_paths

\* C26: the gate worker handles a segment that the dispatcher has put on
\* the gate queue again.
C26_OfferedWhileHandled == GateHandles /\ Queued(gate_queue, gate.path)

\* C26: the classifier queue holds a path twice.
C26_TwiceOnClassifierQueue == ~NoPathTwice(analysis_queue)


\* A step in which the dispatcher unlinks the path it has just tested, in
\* the age eviction or in the queue-cap eviction.
Evicts == disp.pc \in {"age_unlink", "cap_unlink"} /\ disp'.pc # disp.pc

\* C27: the age eviction and the queue-cap eviction never delete a file that
\* is in an in-flight set at the moment of the deletion, whatever the gate
\* and the classifier workers do between the membership test and the unlink.
C27_NeverEvictsInFlight ==
  [][Evicts /\ Exists(disp.cur) => ~Tracked(disp.cur)]_vars

\* C27, the part that holds: the path was in neither in-flight set when the
\* dispatcher tested it, so a path on its way to deletion is tracked only
\* when the gate worker has sent it on since.
C27_TrackedOnlyByGateSince ==
  disp.pc \in {"age_unlink", "cap_unlink"} /\ Tracked(disp.cur)
    => disp.cur \in analysis_paths /\ disp.cur \notin gate_paths

\* C27: the dispatcher is about to unlink a file that is on the classifier
\* queue and in the classifier's in-flight set.
C27_AboutToEvictInFlight ==
  /\ disp.pc \in {"age_unlink", "cap_unlink"}
  /\ Exists(disp.cur)
  /\ disp.cur \in analysis_paths
  /\ Queued(analysis_queue, disp.cur)


\* The paths the claim leaves open: /api/status, the dashboard assets and
\* the icon assets.
ClaimPublic(path) ==
  \/ StartsWith(path, Path(<<<<"api">>, <<"status">>>>))
  \/ path \in {Path(<<<<>>>>), Path(<<<<"index", ".html">>>>),
               Path(<<<<"app", ".js">>>>), Path(<<<<"styles", ".css">>>>)}
  \/ StartsWith(path, Path(<<<<"data">>, <<"icons">>, <<>>>>))

\* Settings authentication is on and the request does not carry the stored
\* credentials.
Unauthenticated ==
  /\ request.auth_flag
  /\ request.password_hash # ""
  /\ request.authorization # "valid"

\* C22: with settings authentication enabled, every path other than
\* /api/status, the dashboard assets and the icon assets is answered 401
\* with WWW-Authenticate unless the request carries valid Basic credentials,
\* for GET and for POST.
C22_EverythingElseGuarded ==
  response # NoRequest /\ Unauthenticated /\ ~ClaimPublic(request.path)
    => response = Denied

\* C22, the part that holds: the paths under /api/ other than /api/status
\* and /api/weather/settings, and the five settings pages, are answered 401,
\* and nothing is answered 401 that carries valid credentials.
C22_ApiAndSettingsGuarded ==
  response # NoRequest =>
    /\ Unauthenticated
         /\ (\/ /\ StartsWith(request.path, Path(<<<<"api">>, <<>>>>))
                /\ ~StartsWith(request.path, Path(<<<<"api">>, <<"status">>>>))
                /\ ~StartsWith(request.path,
                               Path(<<<<"api">>, <<"weather">>, <<"settings">>>>))
             \/ request.path \in
                  {Path(<<<<"settings">>>>), Path(<<<<"settings">>, <<>>>>),
                   Path(<<<<"settings", ".html">>>>),
                   Path(<<<<"settings", ".js">>>>),
                   Path(<<<<"settings", ".css">>>>)})
         => response = Denied
    /\ ~Unauthenticated => response = Routed

\* C22: /settings.json was requested without credentials while settings
\* authentication is on, and the request went on to the file.
C22_SettingsFileServed ==
  /\ Unauthenticated
  /\ request.method = "GET"
  /\ request.path = Path(<<<<"settings", ".js", "on">>>>)
  /\ response = Routed


\* Row j of the table comes after row i in (timestamp, insertion order).
Later(table, i, j) ==
  \/ table[i].timestamp < table[j].timestamp
  \/ table[i].timestamp = table[j].timestamp /\ i < j

\* The positions of the n rows greatest in that order (all rows for None).
Greatest(table, n) ==
  {i \in 1..Len(table) :
     n = -1 \/ Cardinality({j \in 1..Len(table) : Later(table, i, j)}) < n}

\* The rows at the positions S, oldest first.
Ascending(table, S) ==
  [k \in 1..Cardinality(S) |->
     table[CHOOSE i \in S :
             Cardinality({j \in S : Later(table, j, i)}) = k - 1]]

\* The limit the claim gives a request: the integer sent, kept within
\* 0..1000, and 200 when none was sent or it is not an integer.
ClaimLimit(param) ==
  IF param.means = NotAnInt THEN 200
  ELSE IF param.means < 0 THEN 0
  ELSE IF param.means > 1000 THEN 1000
  ELSE param.means

\* The table a read is about and the record a row is returned as.
ReadsLog == request.route \in {"/api/log", "read_log"}

ReadTable == IF ReadsLog THEN detections ELSE events

Returned(row) ==
  IF ReadsLog THEN [row.raw EXCEPT !.id = entry_id(row.raw)] ELSE row

ClaimNoSpecies(data) == data.species \in {Missing, Str("  ")}

\* The step is an answer to POST /api/log/add.
ManualStep == StoreStep("add_manual_log_entry")

\* Sequence t is sequence s with one more element at its end.
OneMore(s, t) == Len(t) = Len(s) + 1 /\ SubSeq(t, 1, Len(s)) = s

WorkerSteps == ops["worker"].done

\* Every step `b` done so far came after a step `a`, and after every `a`.
Then(a, b) ==
  \A i \in 1..Len(WorkerSteps) :
    WorkerSteps[i] = b =>
      /\ \E j \in 1..(i - 1) : WorkerSteps[j] = a
      /\ \A j \in 1..Len(WorkerSteps) : WorkerSteps[j] = a => j < i

\* The snapshot handed to write_latest carries a log_revision at least as
\* large as the one the worker's bump produced.
SnapshotNotOlder ==
  ops["worker"].ret = "written" => published.log_revision >= ops["worker"].rev

\* C25: within one classifier worker handling an above-threshold result the
\* steps come strictly in the order detection rows, detection events,
\* species aggregates, revision bump, cache invalidation, snapshot write; no
\* detection event is stored before its detection row, and the snapshot
\* written carries a log_revision at least as large as the bumped one.
C25_RowsThenEvents ==
  /\ Then("rows", "event")
  /\ Then("event", "aggregates")
  /\ Then("aggregates", "bump")
  /\ Then("bump", "invalidate")
  /\ Then("invalidate", "write")
  /\ SnapshotNotOlder

\* C25, the order the code has: the detection events of all predictions
\* first, then the rows, the aggregates, the bump, the invalidation and the
\* write, with the snapshot's log_revision never below the bumped one.
C25_EventsThenRows ==
  /\ Then("event", "rows")
  /\ Then("rows", "aggregates")
  /\ Then("aggregates", "bump")
  /\ Then("bump", "invalidate")
  /\ Then("invalidate", "write")
  /\ SnapshotNotOlder

\* C25: the detection events of a result are stored and none of its rows is.
C25_EventStoredBeforeRow ==
  /\ ops["worker"].pc = "insert"
  /\ \E i \in 1..Len(events) : events[i].type = "detection"
  /\ \A i \in 1..Len(detections) :
       \A k \in 1..Len(ops["worker"].entries) :
         detections[i].id # ops["worker"].entries[k].id

\* C25: the worker has written its snapshot while other threads bumped the
\* revision in between.
C25_WrittenAfterOtherBumps ==
  /\ ops["worker"].ret = "written"
  /\ published.log_revision > ops["worker"].rev


\* The threads that serve requests.
Handlers == OpThreads \ {"worker"}

\* No thread is inside a store operation.
AtRest == \A t \in OpThreads : ops[t].pc = "idle"

\* The summary row a lookup with the current revision finds.
CurrentSummaries == get_cached_summary(summary_cache, log_revision)

\* C28: whenever summarize_log returns a cached payload, that payload has
\* the total_detections and the per-species counts a recomputation over the
\* detections table as it is at that moment gives, under any interleaving
\* with append_log and delete_log_entry.
\* In particular a summary computed from an older state of the table is never
\* stored stamped with a newer revision: while no operation is running, the
\* row with the current revision was computed from the table as it is.
NoStaleRowAtRest ==
  AtRest =>
    \A p \in CurrentSummaries :
      /\ p.total_detections = Len(detections)
      /\ p.counts = rebuild_species_counts(detections)

C28_CachedPayloadIsFresh ==
  /\ [][\A t \in Handlers :
          (ops[t].pc = "query" /\ ops'[t].ret = "hit") =>
            /\ ops'[t].payload.total_detections = Len(detections')
            /\ ops'[t].payload.counts = rebuild_species_counts(detections')]_vars
  /\ []NoStaleRowAtRest

\* C28: all operations have returned, a summary and an append among them,
\* and the row a lookup would now return counts fewer detections than the
\* table holds.
C28_StaleRowAtRest ==
  /\ AtRest
  /\ ops["worker"].ret = "written"
  /\ \E t \in Handlers : ops[t].ret = "miss"
  /\ \E p \in CurrentSummaries : p.total_detections < Len(detections)


\* species_counts.get(s, 0)
CountOf(counts, s) == IF s \in DOMAIN counts THEN counts[s] ELSE 0

\* The rows of the table with species s.
RowsOf(s) ==
  Cardinality({i \in 1..Len(detections) : detections[i].species = s})

\* C29: once all running operations have completed, species_set and
\* species_counts equal a full scan of the detections table, under any
\* interleaving of append_log with delete_log_entry's rebuild or with
\* summarize_log's overwrite: no append is lost or counted twice.
C29_AggregatesMatchTableAtRest ==
  AtRest =>
    /\ species_set = rebuild_species_set(detections)
    /\ species_counts = rebuild_species_counts(detections)

\* C29: all operations have returned and an append's contribution is lost:
\* a species has more rows than species_counts says.
C29_AppendLost ==
  /\ AtRest
  /\ ops["worker"].ret = "written"
  /\ \E s \in SpeciesNames : CountOf(species_counts, s) < RowsOf(s)

\* C29: all operations have returned and an append is counted twice.
C29_AppendCountedTwice ==
  /\ AtRest
  /\ ops["worker"].ret = "written"
  /\ \E s \in SpeciesNames : CountOf(species_counts, s) > RowsOf(s)

\* C29: all operations have returned and species_set lacks a species that
\* has rows in the table.
C29_SpeciesMissing ==
  /\ AtRest
  /\ \E s \in SpeciesNames : RowsOf(s) > 0 /\ s \notin species_set

\* C29, what holds: with the request handlers idle throughout, the
\* aggregates match the table once the append has returned.
C29_AppendAloneMatches ==
  (AtRest /\ \A t \in Handlers : ops[t].round = 0) =>
    /\ species_set = rebuild_species_set(detections)
    /\ species_counts = rebuild_species_counts(detections)

\* C29: the append has returned with the request handlers idle throughout.
C29_AppendAloneDone ==
  /\ ops["worker"].ret = "written"
  /\ \A t \in Handlers : ops[t].round = 0 /\ ops[t].pc = "idle"


(***************************************************************************)
(* Claims about refresh_last_detection and the latest snapshot             *)
(***************************************************************************)
\* The request handler's write_latest replaces latest.json in this step.
HandlerReplaces ==
  lpc["http"] = "wl_replace" /\ fs' = replace(fs, "latest.tmp", LATEST_PATH)

\* C30: refresh_last_detection run by a request handler never replaces a
\* snapshot a concurrent classifier or capture writer published with status
\* content it read before that writer published: its write leaves the
\* status, species and top_predictions of latest.json as the most recent
\* publisher wrote them.
C30_RefreshKeepsPublishedStatus ==
  [][HandlerReplaces => fs'[LATEST_PATH].status = fs[LATEST_PATH].status]_vars

\* C30, what holds: the handler's write changes the status of latest.json
\* only to the status it read.  It writes under write_lock, and whenever the
\* file still has the status it read, the write leaves the status alone.
C30_RefreshWritesStatusItRead ==
  [][HandlerReplaces =>
       /\ write_lock = "http"
       /\ fs'[LATEST_PATH].status = lpayload["http"].status
       /\ fs'[LATEST_PATH].keys = fs["latest.tmp"].keys]_vars

\* C30: the handler is about to replace latest.json, which a writer has
\* published since the handler read it, with the status it read.
C30_AboutToRevertStatus ==
  /\ lpc["http"] = "wl_replace"
  /\ fs[LATEST_PATH].kind = "object"
  /\ fs[LATEST_PATH].status # lpayload["http"].status
  /\ fs[LATEST_PATH].status \in StatusesOf("capture") \cup StatusesOf("worker")


(***************************************************************************)
(* Claims about deletions that remove nothing                              *)
(***************************************************************************)
\* The table holds a row with this id.
Present(id) == \E i \in 1..Len(detections) : detections[i].id = id

\* The keys delete_log_entry is called with.
DeleteKeys == {entry_id(e) : e \in Entries} \cup {""}

\* C37: delete_log_entry called with an empty id or with an id that is not
\* in the detections table returns false and leaves the detections table,
\* the species set and counts, the log revision and the summary cache
\* unchanged.
C37_DeleteOfNothingChangesNothing ==
  [][\A k \in DeleteKeys :
       (DeleteLogEntry(k) /\ (k = "" \/ ~Present(k))) =>
         /\ last_ret' = {FALSE}
         /\ UNCHANGED <<detections, species_set, species_counts,
                        log_revision, summary_cache>>]_vars

\* C37 witness: a delete has returned false while the table holds rows, a
\* row stored under the empty id among them, and a summary row is stored.
C37_Witness ==
  /\ last_op = "delete_log_entry"
  /\ last_ret = {FALSE}
  /\ Present("")
  /\ summary_cache # {}

\* C37 witness of the other case: a delete of an id that is not in the
\* table has returned false.
C37_AbsentIdWitness ==
  /\ last_op = "delete_log_entry"
  /\ last_ret = {FALSE}
  /\ detections # <<>>
  /\ ~Present("")


(***************************************************************************)
(* Claims about the log revision in the latest snapshot                    *)
(***************************************************************************)
\* The log_revision latest.json carries on this disk.
PublishedRevision(disk) == disk[LATEST_PATH].log_revision

\* C31: the log_revision stored in latest.json never decreases from one
\* published snapshot to the next, under any interleaving of the snapshot
\* writers (classifier workers, capture loop, refresh_last_detection) with
\* the bumps of detection appends and deletes.
C31_PublishedRevisionNeverDecreases ==
  [][PublishedRevision(fs') >= PublishedRevision(fs)]_vars

\* C31, what holds: no snapshot, written or about to be written, carries a
\* log_revision the store has not reached.
C31_NeverAheadOfStore ==
  /\ PublishedRevision(fs) <= log_revision
  /\ \A t \in RevWriters :
       lpc[t] \in {"wl_lock", "wl_open", "wl_write", "wl_replace"} =>
         lpayload[t].log_revision <= log_revision

\* C31: a writer stands before tmp_path.replace with a payload whose
\* log_revision is below the one latest.json carries.
C31_OlderAboutToReplace ==
  \E t \in RevWriters :
    /\ lpc[t] = "wl_replace"
    /\ lpayload[t].log_revision < PublishedRevision(fs)


(***************************************************************************)
(* Claims about update_best_clips in concurrent workers                    *)
(***************************************************************************)
\* Every worker is outside update_best_clips.
ClipsAtRest == \A w \in ClipWorkers : clip_calls[w].pc = "idle"

\* Every species a worker archived has an entry in the index.
ArchivedAreIndexed ==
  \A w \in ClipWorkers : clip_calls[w].archived \subseteq DOMAIN clip_index

\* An entry of the index stays, with a score that is not lower.
EntriesKept ==
  \A s \in DOMAIN clip_index :
    /\ s \in DOMAIN clip_index'
    /\ clip_index'[s].score >= clip_index[s].score

\* C32: under concurrent classifier workers update_best_clips never loses
\* an archive update: after all workers have finished the index has an entry
\* for every species any worker archived, the archived score of a species
\* never decreases, and an entry once present is never removed.
C32_NoArchiveUpdateLost ==
  /\ [](ClipsAtRest => ArchivedAreIndexed)
  /\ [][EntriesKept]_vars

\* C32, what holds: a worker whose call no other worker's call overlaps
\* keeps every entry, lowers no score and leaves its own species indexed.
C32_AloneLosesNothing ==
  [][\A w \in ClipWorkers :
       (/\ clip_calls[w].pc = "loop"
        /\ \A v \in ClipWorkers \ {w} :
             clip_calls[v].pc = "idle" /\ clip_calls[v].round = 0) =>
         /\ EntriesKept
         /\ clip_calls'[w].pc = "idle" =>
              clip_calls'[w].archived \subseteq DOMAIN clip_index']_vars

\* C32: both workers have finished and the index lacks a species one of
\* them archived.
C32_ArchivedSpeciesMissing == ClipsAtRest /\ ~ArchivedAreIndexed

\* C32: a worker is about to save an index that gives a species a lower
\* score than the index on disk does.
C32_AboutToLowerScore ==
  \E w \in ClipWorkers :
    /\ clip_calls[w].pc = "loop"
    /\ clip_calls[w].predictions = <<>>
    /\ clip_calls[w].updated
    /\ \E s \in DOMAIN clip_index \cap DOMAIN clip_calls[w].index :
         clip_calls[w].index[s].score < clip_index[s].score

\* C32: a worker has saved alone and its species is in the index.
C32_AloneSaved ==
  /\ clip_calls[1].pc = "idle" /\ clip_calls[1].archived # {}
  /\ clip_calls[2].pc = "idle" /\ clip_calls[2].round = 0


(***************************************************************************)
(* Claims about the end of a capture child                                 *)
(***************************************************************************)
EndLog == ending.log

Positions(name) == {i \in 1..Len(EndLog) : EndLog[i] = name}

\* The supervisor is ending the child for one of the three reasons.
EndsChild == ending.why \in {"restart", "stall", "stall reset", "stop"}

\* Every KILL comes after a TERM and a wait of 2 s that expired after that
\* TERM, and goes to a child that has not ended.
KillOnlyAfterTermAndWait ==
  \A k \in Positions("KILL") :
    /\ \E t \in Positions("TERM") : \E w \in Positions("timeout") :
         t < w /\ w < k
    /\ \A d \in Positions("died") : k < d

\* A child the supervisor waits for has been sent TERM.
TermBeforeWait ==
  (EndsChild /\ ending.pc \in {"wait", "wait_killed"}) =>
    Positions("TERM") # {}

\* The pid cell is cleared after the child has been collected, or after the
\* two waits of 2 s have expired.
ClearedAfterWaits ==
  \A c \in Positions("clear") :
    \/ ending.child = "reaped"
    \/ Cardinality({w \in Positions("timeout") : w < c}) >= 2

\* C33: on every path by which the supervisor ends a capture child (restart
\* request, stall, stop request) the child is first sent TERM and is sent
\* KILL only if it has not exited within 2 s after the TERM; the current-pid
\* cell is cleared only after these bounded waits.
C33_TermThenKillAfterTwoSeconds ==
  EndsChild => /\ TermBeforeWait
               /\ KillOnlyAfterTermAndWait
               /\ ClearedAfterWaits

\* C33, what holds: on a restart request and on a stall short of the third
\* in a row the child is sent TERM first and KILL only after a wait of 2 s
\* has expired with the child still running; and on every path the pid cell
\* is cleared only after the child was collected or both waits expired, and
\* no KILL is sent before a wait of 2 s has expired.
C33_RestartAndStallTermFirst ==
  /\ ending.why \in {"restart", "stall"} =>
       (TermBeforeWait /\ KillOnlyAfterTermAndWait)
  /\ ClearedAfterWaits
  /\ \A k \in Positions("KILL") : \E w \in Positions("timeout") : w < k

\* C33: a restart request or an ordinary stall: the child outlived TERM and
\* the wait of 2 s and has been sent KILL.
C33_TermWaitKill ==
  /\ ending.why \in {"restart", "stall"}
  /\ \E t \in Positions("TERM") : \E k \in Positions("KILL") : t < k
  /\ ending.pc = "none"

\* C33: the stop request: the child is sent KILL and was never sent TERM.
C33_KilledWithoutTerm ==
  /\ ending.why = "stop"
  /\ Positions("KILL") # {}
  /\ Positions("TERM") = {}

\* C33: the third stall in a row: the child ended on the reaper's TERM and
\* is sent KILL all the same.
C33_KilledAfterItEnded ==
  /\ ending.why = "stall reset"
  /\ \E d \in Positions("died") : \E k \in Positions("KILL") : d < k


(***************************************************************************)
(* Claims about the error event of analyze_segment                         *)
(***************************************************************************)
\* Between a worker's comparison with analysis_last_error and the end of its
\* with-block the string is the one it compared with, and no two workers are
\* inside a with-block.
CheckAndUpdateAtomic ==
  /\ \A w \in AnWorkerIds :
       an[w].pc \in {"log", "set", "skip"} =>
         analysis_last_error = an[w].seen
  /\ Cardinality({w \in AnWorkerIds : an[w].pc \in InLock}) <= 1

\* Worker w leaves its with-block.
LeavesBlock(w) == an[w].pc \in InLock /\ an'[w].pc = "write"

\* Worker w writes its snapshot.
WritesSnapshot(w) == an[w].pc = "write" /\ an'[w].pc = "done"

ErrorEmitted(w) ==
  \E i \in 1..Len(an'[w].emitted) :
    an'[w].emitted[i] = Event("error", an[w].error, <<>>, FALSE)

C34_EmittedAgainAfterSuccess ==
  /\ \A w \in AnWorkerIds :
       /\ an[w].pc = "done"
       /\ an[w].round = ErrRounds
       /\ an[w].error = Failed
       /\ an[w].emitted # <<>>
  /\ analysis_last_error = Failed

\* C34: the template is not set a second time: no error event, and the
\* snapshot written says status "idle".
C34_TemplateNotSetSilent ==
  \E w \in AnWorkerIds :
    /\ an[w].pc = "done"
    /\ an[w].error = TemplateNotSet
    /\ an[w].seen = TemplateNotSet
    /\ an[w].emitted = <<>>
    /\ published.status = "idle"


(***************************************************************************)
(* Claims about a capture tool that cannot be resolved                     *)
(***************************************************************************)
\* Processes started by capture_loop.
ChildrenLaunched == {p \in DOMAIN procs : p >= FirstChildPid}

\* capture_loop has returned.
CaptureReturned == sup.pc = "returned"

\* The loop never gets past the resolution of the tool and starts no child.
NeverLaunches ==
  /\ sup.pc \in {"startup", "snapshot", "returned"}
  /\ ChildrenLaunched = {}
  /\ next_pid = FirstChildPid
  /\ current_capture_pid = NoPid

\* C35: when ffmpeg is neither on PATH nor among the fallback paths,
\* capture_loop publishes status "error" with "ffmpeg not found", logs the
\* error event in that one step and in no other, returns and never launches
\* a child; the request handlers go on being served.
C35_ToolNotFoundEndsCapture ==
  /\ [](~ffmpeg_installed => NeverLaunches)
  /\ [](~ffmpeg_installed /\ CaptureReturned =>
          /\ sup_status = "error: ffmpeg not found"
          /\ ENABLED RestartRequest \/ restart_capture
          /\ IF req = "idle"
               THEN \E updates \in SupPatches : ENABLED SettingsApply(updates)
               ELSE ENABLED SettingsSignal)
  /\ [][/\ (~CaptureReturned /\ CaptureReturned') =>
             /\ ~ffmpeg_installed
             /\ sup_event' = "ffmpeg not found"
             /\ sup_status' = "error: ffmpeg not found"
        /\ (CaptureReturned = CaptureReturned' /\ sup_event' # sup_event) =>
             sup_event' # "ffmpeg not found"
        /\ CaptureReturned => sup' = sup]_vars

\* C35: capture_loop has returned for want of ffmpeg, and a request was
\* served afterwards.
C35_ReturnedAndServing ==
  /\ ~ffmpeg_installed
  /\ CaptureReturned
  /\ sup_status = "error: ffmpeg not found"
  /\ sup_event = "Capture restart requested"


(***************************************************************************)
(* Claims about a capture command that cannot be built                     *)
(***************************************************************************)
\* Settings without a device in device mode or without a URL in stream mode.
Misconfigured(settings) ==
  \/ settings.input_mode = Str("avfoundation")
  \/ settings.rtmp_url = Str("")

ReasonOf(settings) ==
  IF settings.input_mode = Str("avfoundation") THEN "Audio input not set"
  ELSE "Stream URL not set"

\* The supervisor is in the branch of a command that could not be built.
InErrorBranch == sup.pc \in {"err_test", "err_clear"}

\* The branch of a command that cannot be built: the reason is published
\* with status idle and nothing is launched.
PublishesReason ==
  (sup.pc = "build" /\ sup'.pc # "build" /\ Misconfigured(sup.snapshot)) =>
    /\ sup_status' = "idle: " \o ReasonOf(sup.snapshot)
    /\ procs' = procs
    /\ next_pid' = next_pid
    /\ InErrorBranch'

\* The branch ends with the flag it found set cleared and goes on to a
\* fresh snapshot of the settings.
ClearsAndReevaluates ==
  /\ (sup.pc = "err_test" /\ sup'.pc # "err_test") =>
       IF restart_capture THEN sup'.pc = "err_clear"
       ELSE sup'.pc = "snapshot"
  /\ (sup.pc = "err_clear" /\ sup'.pc # "err_clear") =>
       (~restart_capture' /\ sup'.pc = "snapshot")
  /\ (sup.pc = "snapshot" /\ sup'.pc = "build") => sup'.snapshot = config

\* C36: when build_ffmpeg_command returns an error the supervisor publishes
\* status idle with the reason, launches no child, clears a pending restart
\* flag and takes a fresh snapshot; no child ever runs a command built from
\* such settings; and once the settings allow a command a child is launched
\* unless the settings are broken again first.
C36_MisconfiguredWaitsForFix ==
  /\ [](InErrorBranch =>
          /\ current_capture_pid = NoPid
          /\ sup.pid \notin DOMAIN procs)
  /\ [](\A p \in DOMAIN procs : ~Misconfigured(procs[p].command))
  /\ [][PublishesReason /\ ClearsAndReevaluates]_vars
  /\ (InErrorBranch /\ LaunchesLeft /\ ~Misconfigured(config))
       ~> (sup.pc = "setpid" \/ Misconfigured(config))

\* C36: the supervisor has published "Audio input not set", found the
\* restart flag of the repairing request while the settings are valid, and
\* is about to clear it.
C36_FixArrivesInErrorBranch ==
  /\ sup.pc = "err_clear"
  /\ sup_status = "idle: Audio input not set"
  /\ restart_capture
  /\ ~Misconfigured(config)
  /\ DOMAIN procs = {}

\* C36: a child runs after the settings were repaired.
C36_LaunchedAfterFix ==
  /\ sup.pc = "poll"
  /\ sup.pid \in DOMAIN procs
  /\ sup.last_status = "Listening"
  /\ ~Misconfigured(config)


(***************************************************************************)
(* Claims about the events of dropped segments                             *)
(***************************************************************************)
DropMessages ==
  [backlog |-> "Dropped active segment due to backlog",
   stale |-> "Dropped stale segment",
   cap |-> "Dropped queued segments to cap queue"]

\* The positions of the events logged for a cause.
DropEventsOf(cause) ==
  {i \in 1..Len(events) : events[i].message = DropMessages[cause]}

\* No two events of the cause lie within 10 s of each other.
OncePerWindow(cause) ==
  \A i, j \in DropEventsOf(cause) :
    i < j => events[j].timestamp - events[i].timestamp > DropWindow

\* C38: for each cause of a drop (backlog, stale, cap) at most one event is
\* logged per 10 seconds.
C38_OneDropEventPerTenSeconds == \A cause \in DropCauses : OncePerWindow(cause)

\* C38, what holds: the events of backlog drops and of stale drops are more
\* than 10 s apart, however many segments are dropped.
C38_BacklogAndStaleLimited == OncePerWindow("backlog") /\ OncePerWindow("stale")

\* C38: two events of cap drops with the same timestamp.
C38_TwoCapEventsAtOnce ==
  \E i, j \in DropEventsOf("cap") :
    i < j /\ events[j].timestamp = events[i].timestamp

\* C38: three stale segments and three active segments dropped, one event
\* each.
C38_ManyDropsOneEvent ==
  /\ disp.dropped.stale = MaxDropCount
  /\ disp.dropped.backlog = MaxDropCount
  /\ Cardinality(DropEventsOf("stale")) = 1
  /\ Cardinality(DropEventsOf("backlog")) = 1


(***************************************************************************)
(* Claims about the mutexes                                                *)
(***************************************************************************)
SpeciesLocks == {"species_lock", "species_count_lock"}

AllLocks ==
  UNION {{Nestings[b][i] : i \in 1..Len(Nestings[b])} : b \in DOMAIN Nestings}

\* <<a, b>>: some block takes b while it holds a.
AcquisitionOrder ==
  UNION {{<<Nestings[b][x[1]], Nestings[b][x[2]]>> :
            x \in {y \in (1..Len(Nestings[b])) \X (1..Len(Nestings[b])) :
                     y[1] < y[2]}} :
         b \in DOMAIN Nestings}

\* No set of mutexes in which each is held while another of the set is
\* taken.
Acyclic(order) ==
  \A S \in SUBSET AllLocks \ {{}} :
    \E a \in S : \A b \in S : <<a, b>> \notin order

\* Thread t waits for a mutex another thread holds.
Blocked(t) ==
  /\ ~ops[t].leaving
  /\ ops[t].held > 0
  /\ ops[t].held < Len(ops[t].op)
  /\ ~Free(ops[t].op[ops[t].held + 1])

\* Thread u holds the mutex thread t waits for.
WaitsFor(t, u) == Blocked(t) /\ ops[t].op[ops[t].held + 1] \in HeldBy(u)

\* No set of threads in which each waits for a mutex held inside the set.
NoDeadlock ==
  \A S \in SUBSET {t \in LockThreads : Blocked(t)} \ {{}} :
    \E t \in S : \A u \in S : ~WaitsFor(t, u)

\* The order in which the blocks take mutexes has no cycle.
OrderIsAcyclic == Acyclic(AcquisitionOrder)

\* C39: no thread takes a mutex while it holds species_lock or
\* species_count_lock; the order in which mutexes are taken inside one
\* another has no cycle, and every mutex a thread holds while it takes
\* another precedes it in that order; no set of threads waits for one
\* another.
C39_NoLockCycle ==
  /\ [](/\ OrderIsAcyclic
        /\ NoDeadlock
        /\ \A t \in LockThreads : \A i, j \in 1..ops[t].held :
             i < j => <<ops[t].op[i], ops[t].op[j]>> \in AcquisitionOrder)
  /\ [][\A t \in LockThreads :
          HeldBy(t) \cap SpeciesLocks # {} => HeldBy(t)' \subseteq HeldBy(t)]_vars

\* C39: a worker holds species_count_lock inside last_detection_lock while
\* the other worker, inside analysis_error_lock, waits for event_lock, which
\* a request handler holds.
C39_NestedAndWaiting ==
  /\ HeldBy("worker1") = {"last_detection_lock", "species_count_lock"}
  /\ WaitsFor("worker2", "http")
  /\ HeldBy("worker2") = {"analysis_error_lock"}

(***************************************************************************)
(* Claims about the pipeline kept running                                  *)
(***************************************************************************)
LivePaths == 1..MaxSegs

\* Every path in an in-flight set leaves it.
InFlightDrains ==
  \A p \in LivePaths :
    /\ (p \in gate_paths) ~> (p \notin gate_paths)
    /\ (p \in analysis_paths) ~> (p \notin analysis_paths)

\* The clock of the model stops at MaxTime: a segment written before that
\* becomes ready, and one written more than the age limit before that
\* passes the limit.
BecomesReady(p) == Exists(p) /\ files[p] + ReadyAfter < MaxTime

PassesAgeLimit(p) == Exists(p) /\ files[p] + SmallAge < MaxTime

\* Every segment that becomes ready is deleted.
SegmentsDeleted == \A p \in LivePaths : BecomesReady(p) ~> ~Exists(p)

\* Every segment that passes the age limit is deleted.
OverAgeSegmentsDeleted ==
  \A p \in LivePaths : PassesAgeLimit(p) ~> ~Exists(p)

\* C40: while the clock runs and the dispatcher, the gate worker and the
\* classifier workers keep being scheduled, every segment written to the
\* directory (early enough to pass the age limit before the clock of the
\* model stops) is deleted at some point, whether analyze_segment returns
\* or raises, and every path put into gate_paths or analysis_paths leaves
\* it, also when its file was deleted while it was queued.
C40_SegmentsDeletedAndSetsDrain == OverAgeSegmentsDeleted /\ InFlightDrains

\* C40: a path was put into analysis_paths and the queue of the classifier,
\* its file was deleted before a worker took it, and it has left the set:
\* nothing is queued or in flight and the workers wait.
C40_DeletedWhileQueuedAndDrained ==
  /\ \E p \in DOMAIN run_count :
       run_count[p] = 0 /\ enq_count[p] > 0 /\ ~Exists(p)
  /\ gate_paths = {} /\ analysis_paths = {}
  /\ gate_queue = <<>> /\ analysis_queue = <<>>
  /\ \A w \in LiveWorkers : workers[w].pc = "get"

\* C40: analyze_segment was entered twice for a segment that is deleted by
\* now (the first analysis raised, or the segment was enqueued twice), and
\* nothing is in flight.
C40_AnalysedTwiceAndGone ==
  /\ \E p \in DOMAIN run_count : run_count[p] = 2 /\ ~Exists(p)
  /\ gate_paths = {} /\ analysis_paths = {}
  /\ gate_queue = <<>> /\ analysis_queue = <<>>

\* C40: a path is in analysis_paths and in the queue of the classifier, and
\* its file is deleted.
C40_QueuedAndFileDeleted ==
  \E p \in LivePaths :
    /\ p \in analysis_paths
    /\ \E i \in DOMAIN analysis_queue : analysis_queue[i] = p
    /\ ~Exists(p)

\* C40, with analyses that return at some attempt: also the segments that
\* the clock of the model does not let pass the age limit are deleted.
C40_DeletedWhenAnalysesReturn == SegmentsDeleted /\ InFlightDrains

=========================================================================
